---- MODULE Spec2Model ----
(***************************************************************************)
(* A state-machine model of src/nvim/api/command.c: the user command       *)
(* registry (create_user_command, nvim_buf_del_user_command,               *)
(* nvim_buf_get_commands), the descriptor validator and serializer         *)
(* (nvim_cmd, build_cmdline_str) and the line-to-descriptor translator     *)
(* (nvim_parse_cmd).                                                       *)
(*                                                                         *)
(* Text is a sequence of one-character strings, so that formatting and     *)
(* parsing are computed character by character.  A 64-bit API Integer is a *)
(* pair [hi, lo] standing for hi * 2^32 + lo with lo a signed 32-bit       *)
(* number: the cast (int)x or (linenr_T)x is then exactly x.lo.            *)
(*                                                                         *)
(* Functions of the repository that command.c calls but that live in other *)
(* files (usercmd.c, ex_docmd.c, ops.c, api/private/helpers.c) are marked  *)
(* "external" where they are defined.                                      *)
(***************************************************************************)
EXTENDS Integers, Sequences, FiniteSets, TLC

VARIABLES
  ucmds,     \* the global user command table (garray_T ucmds)
  b_ucmds,   \* the buffer-local tables, buf->b_ucmds, by buffer handle
  pc,        \* "run", "call" or "return"; "crash" after a null buffer was read
  call,      \* the API call just made, with its arguments
  err,       \* Error *err as the call left it
  ea,        \* exarg_T ea as the call left it
  cmdinfo,   \* CmdParseInfo cmdinfo as the call left it
  cmdline,   \* the command line text the call built or parsed
  result     \* the Dictionary (or listing) the call returned

vars == <<ucmds, b_ucmds, pc, call, err, ea, cmdinfo, cmdline, result>>

----------------------------------------------------------------------------
(* Bounds of the model.                                                    *)

\* capacity of one command table in the model (the garray grows unboundedly)
MaxCmds == 3
\* curbuf->b_ml.ml_line_count of the buffer the calls run in
ml_line_count == 3
\* curwin->w_cursor.lnum when the calls are made
w_cursor_lnum == 2
\* LAST_TAB_NR, the number of tab pages, and the index of the current one
LAST_TAB_NR == 2
tabpage_index == 1

----------------------------------------------------------------------------
(* API objects (Object of api/private/defs.h): a type tag and a value.     *)

NIL == [type |-> "Nil", v |-> 0]
BOOLEAN_OBJ(b) == [type |-> "Boolean", v |-> b]
INTEGER_OBJ(i) == [type |-> "Integer", v |-> i]
STRING_OBJ(s) == [type |-> "String", v |-> s]
ARRAY_OBJ(a) == [type |-> "Array", v |-> a]
DICTIONARY_OBJ(d) == [type |-> "Dictionary", v |-> d]
LUAREF_OBJ(r) == [type |-> "LuaRef", v |-> r]

HAS_KEY(o) == o.type /= "Nil"

\* a 64-bit Integer hi * 2^32 + lo, lo in -2^31 .. 2^31 - 1
I64(hi, lo) == [hi |-> hi, lo |-> lo]
Small(n) == I64(0, n)
IsNeg64(x) == x.hi < 0 \/ (x.hi = 0 /\ x.lo < 0)
IsZero64(x) == x.hi = 0 /\ x.lo = 0
\* (int)x and (linenr_T)x: the low 32 bits, read as a signed number
Narrow32(x) == x.lo

NoError == [type |-> "None", msg |-> ""]
ValidationError(m) == [type |-> "Validation", msg |-> m]
ExceptionError(m) == [type |-> "Exception", msg |-> m]
ERROR_SET(e) == e.type /= "None"

\* external (api/private/helpers.c): Boolean as is, Integer as non-zero,
\* Nil as the caller's default, anything else the error "<what> is not a
\* boolean" (the message is kept as <what>)
api_object_to_bool(obj, what, nil_value) ==
  CASE obj.type = "Boolean" -> [val |-> obj.v, err |-> NoError]
    [] obj.type = "Integer" -> [val |-> ~IsZero64(obj.v), err |-> NoError]
    [] obj.type = "Nil" -> [val |-> nil_value, err |-> NoError]
    [] OTHER -> [val |-> FALSE, err |-> ValidationError(what)]

----------------------------------------------------------------------------
(* Characters.                                                             *)

Digits == <<"0", "1", "2", "3", "4", "5", "6", "7", "8", "9">>
DigitSet == {Digits[i] : i \in 1..10}
UpperSet == {"A", "B", "C", "G", "H", "M", "Z"}
LowerSet == {"a", "b", "c", "d", "e", "f", "g", "h", "i", "j", "k", "l", "m",
             "n", "o", "p", "q", "r", "s", "t", "u", "v", "w", "x", "y", "z"}
ascii_iswhite(c) == c \in {" ", "\t"}
ascii_isdigit(c) == c \in DigitSet
ASCII_ISUPPER(c) == c \in UpperSet
ASCII_ISLOWER(c) == c \in LowerSet
ASCII_ISALPHA(c) == ASCII_ISUPPER(c) \/ ASCII_ISLOWER(c)
ASCII_ISALNUM(c) == ASCII_ISALPHA(c) \/ ascii_isdigit(c)
\* external (mbyte.c): for one byte of ASCII, the lowercase letters
mb_islower(c) == ASCII_ISLOWER(c)
\* external (ex_docmd.c): a character that ends an Ex command
ends_excmd(c) == c \in {"NUL", "|", "\"", "\n"}

\* the byte at position i of a NUL-terminated string (1-based)
CharAt(s, i) == IF i >= 1 /\ i <= Len(s) THEN s[i] ELSE "NUL"

DigitVal(c) == CHOOSE i \in 0..9 : Digits[i + 1] = c

\* the first pair <<condition, error>> of checks whose condition holds: the
\* code's "goto err" / "goto end" at the first failing check
RECURSIVE FirstFailed(_, _)
FirstFailed(checks, i) ==
  IF i > Len(checks) THEN 0
  ELSE IF checks[i][1] THEN i
  ELSE FirstFailed(checks, i + 1)

----------------------------------------------------------------------------
(* The registry: create_user_command and what it calls.                    *)

Buffers == {1, 2}
curbuf == 1
\* external (api/private/helpers.c): handle 0 is the current buffer, a handle
\* of no buffer sets "Invalid buffer id" and gives NULL (0 here)
find_buffer_by_handle(buffer) ==
  IF buffer = 0 THEN [buf |-> curbuf, err |-> NoError]
  ELSE IF buffer \in Buffers THEN [buf |-> buffer, err |-> NoError]
  ELSE [buf |-> 0, err |-> ValidationError("Invalid buffer id")]

OptsNone ==
  [nargs |-> NIL, range |-> NIL, count |-> NIL, addr |-> NIL, bang |-> NIL,
   bar |-> NIL, register |-> NIL, keepscript |-> NIL, force |-> NIL,
   complete |-> NIL, preview |-> NIL, desc |-> NIL]

\* external (usercmd.c): letters then letters and digits, and the name must
\* end there (at the NUL, a command terminator or white space)
RECURSIVE SkipAlnum(_, _)
SkipAlnum(name, i) ==
  IF ASCII_ISALNUM(CharAt(name, i)) THEN SkipAlnum(name, i + 1) ELSE i
uc_validate_name(name) ==
  LET e == IF ASCII_ISALPHA(CharAt(name, 1)) THEN SkipAlnum(name, 1) ELSE 1
  IN  ends_excmd(CharAt(name, e)) \/ ascii_iswhite(CharAt(name, e))

\* external (usercmd.c): the address kinds :command-addr knows
parse_addr_type_arg(value) ==
  CASE value = <<"l", "i", "n", "e", "s">> -> "ADDR_LINES"
    [] value = <<"o", "t", "h", "e", "r">> -> "ADDR_OTHER"
    [] value = <<"b", "u", "f", "f", "e", "r", "s">> -> "ADDR_BUFFERS"
    [] OTHER -> "FAIL"

\* external (usercmd.c): the completion kinds :command-complete knows; file
\* completion makes the command expand file names
parse_compl_arg(value) ==
  CASE value = <<"f", "i", "l", "e">> -> [compl |-> "EXPAND_FILES", argt |-> {"EX_XFILE"}]
    [] value = <<"c", "o", "l", "o", "r">> -> [compl |-> "EXPAND_COLORS", argt |-> {}]
    [] OTHER -> [compl |-> "FAIL", argt |-> {}]

\* command.c 1032-1067: the 'nargs' option
NargsArgt(opts) ==
  CASE opts.nargs.type = "Integer" /\ opts.nargs.v = Small(1) ->
         {"EX_EXTRA", "EX_NOSPC", "EX_NEEDARG"}
    [] opts.nargs.type = "String" /\ opts.nargs.v = <<"*">> -> {"EX_EXTRA"}
    [] opts.nargs.type = "String" /\ opts.nargs.v = <<"?">> -> {"EX_EXTRA", "EX_NOSPC"}
    [] opts.nargs.type = "String" /\ opts.nargs.v = <<"+">> -> {"EX_EXTRA", "EX_NEEDARG"}
    [] OTHER -> {}
NargsInvalid(opts) ==
  CASE opts.nargs.type = "Integer" -> opts.nargs.v \notin {Small(0), Small(1)}
    [] opts.nargs.type = "String" ->
         \/ Len(opts.nargs.v) > 1
         \/ CharAt(opts.nargs.v, 1) \notin {"*", "?", "+"}
    [] OTHER -> HAS_KEY(opts.nargs)

\* command.c 1074-1094: the 'range' option
RangeArgt(opts) ==
  CASE opts.range.type = "Boolean" -> IF opts.range.v THEN {"EX_RANGE"} ELSE {}
    [] opts.range.type = "String" -> {"EX_RANGE", "EX_DFLALL"}
    [] opts.range.type = "Integer" -> {"EX_RANGE", "EX_ZEROR"}
    [] OTHER -> {}
RangeInvalid(opts) ==
  CASE opts.range.type = "Boolean" -> FALSE
    [] opts.range.type = "String" -> opts.range.v /= <<"%">>
    [] opts.range.type = "Integer" -> FALSE
    [] OTHER -> HAS_KEY(opts.range)

\* command.c 1096-1109: the 'count' option
CountSets(opts) ==
  \/ opts.count.type = "Boolean" /\ opts.count.v
  \/ opts.count.type = "Integer"
CountArgt(opts) ==
  IF CountSets(opts) THEN {"EX_COUNT", "EX_ZEROR", "EX_RANGE"} ELSE {}
CountInvalid(opts) ==
  opts.count.type \notin {"Boolean", "Integer"} /\ HAS_KEY(opts.count)

\* command.c 1008, 1089, 1100, 1105: int64_t def
CommandDef(opts) ==
  IF opts.count.type = "Integer" THEN opts.count.v
  ELSE IF opts.count.type = "Boolean" /\ opts.count.v THEN Small(0)
  ELSE IF opts.range.type = "Integer" THEN opts.range.v
  ELSE Small(-1)

\* command.c 1009, 1077-1118: cmd_addr_T addr_type_arg
CommandAddrType(opts) ==
  IF opts.addr.type = "String" /\ parse_addr_type_arg(opts.addr.v) /= "FAIL"
  THEN parse_addr_type_arg(opts.addr.v)
  ELSE IF CountSets(opts) THEN "ADDR_OTHER"
  ELSE IF RangeArgt(opts) /= {} THEN "ADDR_LINES"
  ELSE "ADDR_NONE"

\* command.c 1111-1124: the 'addr' option
AddrArgt(opts) ==
  IF opts.addr.type = "String" /\ parse_addr_type_arg(opts.addr.v) \notin {"FAIL", "ADDR_LINES"}
  THEN {"EX_ZEROR"} ELSE {}
AddrInvalid(opts) ==
  IF opts.addr.type = "String" THEN parse_addr_type_arg(opts.addr.v) = "FAIL"
  ELSE HAS_KEY(opts.addr)

\* command.c 1126-1148: one boolean attribute, argt |= flag when it is true
FlagArgt(obj, flag) ==
  IF api_object_to_bool(obj, flag, FALSE).val THEN {flag} ELSE {}

\* command.c 1155-1168: the 'complete' option
CompleteArgt(opts) ==
  IF opts.complete.type = "String" THEN parse_compl_arg(opts.complete.v).argt ELSE {}
CompleteInvalid(opts) ==
  CASE opts.complete.type = "LuaRef" -> FALSE
    [] opts.complete.type = "String" -> parse_compl_arg(opts.complete.v).compl = "FAIL"
    [] OTHER -> HAS_KEY(opts.complete)
CommandCompl(opts) ==
  CASE opts.complete.type = "LuaRef" -> "EXPAND_USER_LUA"
    [] opts.complete.type = "String" -> parse_compl_arg(opts.complete.v).compl
    [] OTHER -> "EXPAND_NOTHING"

\* command.c 1007-1176: uint32_t argt as uc_add_command receives it
CommandArgt(opts) ==
  NargsArgt(opts) \cup RangeArgt(opts) \cup CountArgt(opts) \cup AddrArgt(opts)
    \cup FlagArgt(opts.bang, "EX_BANG") \cup FlagArgt(opts.bar, "EX_TRLBAR")
    \cup FlagArgt(opts.register, "EX_REGSTR")
    \cup FlagArgt(opts.keepscript, "EX_KEEPSCRIPT")
    \cup CompleteArgt(opts)
    \cup (IF opts.preview.type = "LuaRef" THEN {"EX_PREVIEW"} ELSE {})

\* a force that is false when the caller gives none
CommandForceUnlessGiven(opts) == api_object_to_bool(opts.force, "force", FALSE).val

\* command.c 1150: bool force, true when the caller gives none
CommandForce(opts) == api_object_to_bool(opts.force, "force", TRUE).val

\* command.c 1178-1193: the replacement text
CommandRep(command, opts) ==
  IF command.type = "LuaRef"
  THEN (IF opts.desc.type = "String" THEN opts.desc.v ELSE <<>>)
  ELSE command.v

\* command.c 1017-1193: the checks of create_user_command in the order the
\* code makes them
CreateChecks(name, command, opts) ==
  << <<~uc_validate_name(name), ValidationError("Invalid command name")>>,
     <<mb_islower(CharAt(name, 1)),
       ValidationError("'name' must begin with an uppercase letter")>>,
     <<HAS_KEY(opts.range) /\ HAS_KEY(opts.count),
       ValidationError("'range' and 'count' are mutually exclusive")>>,
     <<NargsInvalid(opts), ValidationError("Invalid value for 'nargs'")>>,
     <<HAS_KEY(opts.complete) /\ NargsArgt(opts) = {},
       ValidationError("'complete' used without 'nargs'")>>,
     <<RangeInvalid(opts), ValidationError("Invalid value for 'range'")>>,
     <<CountInvalid(opts), ValidationError("Invalid value for 'count'")>>,
     <<AddrInvalid(opts), ValidationError("Invalid value for 'addr'")>>,
     <<ERROR_SET(api_object_to_bool(opts.bang, "bang", FALSE).err),
       api_object_to_bool(opts.bang, "bang", FALSE).err>>,
     <<ERROR_SET(api_object_to_bool(opts.bar, "bar", FALSE).err),
       api_object_to_bool(opts.bar, "bar", FALSE).err>>,
     <<ERROR_SET(api_object_to_bool(opts.register, "register", FALSE).err),
       api_object_to_bool(opts.register, "register", FALSE).err>>,
     <<ERROR_SET(api_object_to_bool(opts.keepscript, "keepscript", FALSE).err),
       api_object_to_bool(opts.keepscript, "keepscript", FALSE).err>>,
     <<ERROR_SET(api_object_to_bool(opts.force, "force", TRUE).err),
       api_object_to_bool(opts.force, "force", TRUE).err>>,
     <<CompleteInvalid(opts), ValidationError("Invalid value for 'complete'")>>,
     <<opts.preview.type /= "LuaRef" /\ HAS_KEY(opts.preview),
       ValidationError("Invalid value for 'preview'")>>,
     <<command.type \notin {"LuaRef", "String"},
       ValidationError("'command' must be a string or Lua function")>> >>

\* command.c 1155-1193: the places of CreateChecks after which a reference
\* has been taken: 'complete' is read at the 14th check, 'preview' at the
\* 15th, the command at the 16th
CompleteCheck == 14
PreviewCheck == 15
CommandCheck == 16

\* command.c 1155-1188: the references api_new_luaref has made when the k-th
\* check fails
RefsAcquired(command, opts, k) ==
  (IF k > CompleteCheck /\ opts.complete.type = "LuaRef" THEN {"compl_luaref"} ELSE {})
  \cup (IF k > PreviewCheck /\ opts.preview.type = "LuaRef"
        THEN {"preview_luaref"} ELSE {})
  \cup (IF k > CommandCheck /\ command.type = "LuaRef" THEN {"luaref"} ELSE {})

\* command.c 1203-1206: the references the label "err" clears
RefsClearedAtErr == {"luaref", "compl_luaref"}

\* the ucmd_T that uc_add_command stores
NewUcmd(name, command, opts) ==
  [uc_name |-> name,
   uc_rep |-> CommandRep(command, opts),
   uc_argt |-> CommandArgt(opts),
   uc_def |-> CommandDef(opts),
   uc_addr_type |-> CommandAddrType(opts),
   uc_compl |-> CommandCompl(opts),
   uc_luaref |-> command.type = "LuaRef",
   uc_compl_luaref |-> opts.complete.type = "LuaRef",
   uc_preview_luaref |-> opts.preview.type = "LuaRef"]

\* the index of the first entry of a table with this name, 0 if none
RECURSIVE FindUcmd(_, _, _)
FindUcmd(gap, name, i) ==
  IF i > Len(gap) THEN 0
  ELSE IF gap[i].uc_name = name THEN i
  ELSE FindUcmd(gap, name, i + 1)

\* the bytes of the model in the order of their codes
AsciiOrder ==
  <<"NUL", "\t", "\n", " ", "!", "\"", "0", "1", "2", "3", "4", "5", "6", "7", "8",
    "9", "A", "B", "C", "G", "H", "M", "Z", "\\", "a", "b", "c", "d", "e", "f", "g",
    "h", "i", "j", "k", "l", "m", "n", "o", "p", "q", "r", "s", "t", "u", "v", "w",
    "x", "y", "z", "|">>
CharCode(c) == CHOOSE i \in 1..Len(AsciiOrder) : AsciiOrder[i] = c
\* strncmp and the comparison of the lengths after it: -1, 0 or 1
RECURSIVE NameCmp(_, _, _)
NameCmp(a, b, i) ==
  IF CharAt(a, i) = "NUL" /\ CharAt(b, i) = "NUL" THEN 0
  ELSE IF CharAt(a, i) = CharAt(b, i) THEN NameCmp(a, b, i + 1)
  ELSE IF CharCode(CharAt(a, i)) < CharCode(CharAt(b, i)) THEN -1
  ELSE 1
\* the first entry that is not before the name, one past the table if none
RECURSIVE NamePlace(_, _, _)
NamePlace(gap, name, i) ==
  IF i > Len(gap) THEN i
  ELSE IF NameCmp(name, gap[i].uc_name, 1) <= 0 THEN i
  ELSE NamePlace(gap, name, i + 1)

\* external (usercmd.c): the table is kept in the order of the names: a
\* command of that name is replaced when force is set and is an error
\* otherwise; a new name is put at its place in the order
uc_add_command(gap, cmd, force) ==
  LET i == NamePlace(gap, cmd.uc_name, 1)
  IN  IF i > Len(gap) \/ gap[i].uc_name /= cmd.uc_name
      THEN [ok |-> TRUE,
            gap |-> SubSeq(gap, 1, i - 1) \o <<cmd>> \o SubSeq(gap, i, Len(gap))]
      ELSE IF force THEN [ok |-> TRUE, gap |-> [gap EXCEPT ![i] = cmd]]
      ELSE [ok |-> FALSE, gap |-> gap]

\* command.c 1004-1207: create_user_command on one table: the error it sets
\* and the table it leaves
create_user_command(gap, name, command, opts) ==
  LET checks == CreateChecks(name, command, opts)
      k == FirstFailed(checks, 1)
      added == uc_add_command(gap, NewUcmd(name, command, opts), CommandForce(opts))
  IN  IF k /= 0
      THEN [err |-> checks[k][2], gap |-> gap, failed_at |-> k,
            held |-> RefsAcquired(command, opts, k) \ RefsClearedAtErr]
      ELSE IF ~added.ok
      THEN [err |-> ExceptionError("Failed to create user command"),
            gap |-> gap, failed_at |-> 0, held |-> {}]
      ELSE [err |-> NoError, gap |-> added.gap, failed_at |-> 0, held |-> {}]

\* a delete that takes the last entry when it does not find the name
DelLastIfMissing(gap, name) ==
  IF FindUcmd(gap, name, 1) = 0
  THEN [err |-> ExceptionError("No such user-defined command"),
        gap |-> SubSeq(gap, 1, Len(gap) - 1)]
  ELSE [err |-> NoError,
        gap |-> SubSeq(gap, 1, FindUcmd(gap, name, 1) - 1)
                \o SubSeq(gap, FindUcmd(gap, name, 1) + 1, Len(gap))]

\* a delete that puts the last entry in the place of the one it frees
DelFromTableSwap(gap, name) ==
  IF FindUcmd(gap, name, 1) = 0
  THEN [err |-> ExceptionError("No such user-defined command"), gap |-> gap]
  ELSE [err |-> NoError,
        gap |-> SubSeq([gap EXCEPT ![FindUcmd(gap, name, 1)] = gap[Len(gap)]],
                       1, Len(gap) - 1)]

\* command.c 975-1002: nvim_buf_del_user_command on the table it resolved:
\* the first entry of that name is freed and the entries after it move down
DelFromTable(gap, name) ==
  LET i == FindUcmd(gap, name, 1)
  IN  IF i = 0
      THEN [err |-> ExceptionError("No such user-defined command"), gap |-> gap]
      ELSE [err |-> NoError,
            gap |-> SubSeq(gap, 1, i - 1) \o SubSeq(gap, i + 1, Len(gap))]

\* external (usercmd.c): commands_array, the listing of one table
commands_array(gap) == [i \in 1..Len(gap) |-> gap[i].uc_name]

----------------------------------------------------------------------------
(* State of a call that made no command line.                              *)

NoCmdline == <<>>
NoResult == [kind |-> "none"]
NoEa == [set |-> FALSE]
NoCmdinfo == [set |-> FALSE]

----------------------------------------------------------------------------
(* The registry calls.                                                     *)

Rep1 == <<"r", "1">>
Rep2 == <<"r", "2">>
ForceFalse == [OptsNone EXCEPT !.force = BOOLEAN_OBJ(FALSE)]
ForceTrue == [OptsNone EXCEPT !.force = BOOLEAN_OBJ(TRUE)]
RangeAndCount ==
  [OptsNone EXCEPT !.range = BOOLEAN_OBJ(TRUE), !.count = BOOLEAN_OBJ(TRUE)]
Define(buffer, name, command, opts) ==
  [buffer |-> buffer, name |-> name, command |-> command, opts |-> opts]
\* the defines the model makes in the global scope
GlobalDefines ==
  {Define(-1, <<"H">>, STRING_OBJ(Rep1), OptsNone),
   Define(-1, <<"H">>, STRING_OBJ(Rep2), OptsNone),
   Define(-1, <<"H">>, STRING_OBJ(Rep2), ForceFalse),
   Define(-1, <<"H">>, STRING_OBJ(Rep2), ForceTrue),
   Define(-1, <<"H">>, STRING_OBJ(Rep1), RangeAndCount),
   Define(-1, <<"H">>, INTEGER_OBJ(Small(5)), OptsNone),
   Define(-1, <<"G">>, STRING_OBJ(Rep1), OptsNone),
   Define(-1, <<"G">>, STRING_OBJ(Rep1), ForceFalse),
   Define(-1, <<>>, STRING_OBJ(Rep1), OptsNone),
   Define(-1, <<"h">>, STRING_OBJ(Rep1), OptsNone),
   Define(-1, <<"7">>, STRING_OBJ(Rep1), OptsNone),
   Define(-1, <<"|">>, STRING_OBJ(Rep1), RangeAndCount),
   Define(-1, <<"H">>, INTEGER_OBJ(Small(5)), [OptsNone EXCEPT !.preview = LUAREF_OBJ(2)]),
   Define(-1, <<"H">>, INTEGER_OBJ(Small(5)),
          [OptsNone EXCEPT !.nargs = STRING_OBJ(<<"*">>), !.complete = LUAREF_OBJ(3)]),
   Define(-1, <<"H">>, LUAREF_OBJ(1),
          [OptsNone EXCEPT !.nargs = STRING_OBJ(<<"*">>), !.complete = LUAREF_OBJ(3),
                           !.preview = STRING_OBJ(<<"x">>)])}
\* the defines the model makes in a buffer's scope
LocalDefines ==
  {Define(0, <<"H">>, STRING_OBJ(Rep1), OptsNone),
   Define(1, <<"H">>, LUAREF_OBJ(1), OptsNone),
   Define(1, <<"H">>, LUAREF_OBJ(1), ForceFalse),
   Define(1, <<"h">>, STRING_OBJ(Rep1), OptsNone),
   Define(2, <<"H">>, STRING_OBJ(Rep1), OptsNone),
   Define(7, <<"H">>, STRING_OBJ(Rep1), OptsNone)}
GlobalDeletes == {<<"H">>, <<"G">>, <<>>, <<"h">>}
LocalDeletes == {<<0, <<"H">> >>, <<1, <<"G">> >>, <<2, <<"H">> >>, <<7, <<"H">> >>}
GlobalLists == {NIL, BOOLEAN_OBJ(TRUE), STRING_OBJ(<<"x">>)}
LocalLists == {<<1, NIL>>, <<1, BOOLEAN_OBJ(TRUE)>>, <<7, NIL>>}

RegistryFrame == UNCHANGED <<pc, ea, cmdinfo, cmdline>>

\* command.c 931-935: nvim_create_user_command
NvimCreateUserCommand(name, command, opts) ==
  LET r == create_user_command(ucmds, name, command, opts)
  IN  /\ pc = "run"
      /\ Len(r.gap) <= MaxCmds
      /\ ucmds' = r.gap
      /\ err' = r.err
      /\ call' = [op |-> "nvim_create_user_command", buffer |-> -1, name |-> name,
                  command |-> command, opts |-> opts]
      /\ result' = [kind |-> "define", held |-> r.held]
      /\ UNCHANGED b_ucmds
      /\ RegistryFrame

\* command.c 952-965: nvim_buf_create_user_command
NvimBufCreateUserCommand(buffer, name, command, opts) ==
  LET target == find_buffer_by_handle(buffer)
      r == create_user_command(b_ucmds[target.buf], name, command, opts)
  IN  /\ pc = "run"
      /\ call' = [op |-> "nvim_buf_create_user_command", buffer |-> buffer,
                  name |-> name, command |-> command, opts |-> opts]
      /\ result' = [kind |-> "define",
                    held |-> IF ERROR_SET(target.err) THEN {} ELSE r.held]
      /\ UNCHANGED ucmds
      /\ RegistryFrame
      /\ IF ERROR_SET(target.err)
         THEN err' = target.err /\ UNCHANGED b_ucmds
         ELSE /\ Len(r.gap) <= MaxCmds
              /\ err' = r.err
              /\ b_ucmds' = [b_ucmds EXCEPT ![target.buf] = r.gap]

\* command.c 975-1002: nvim_buf_del_user_command.  With a handle of no buffer
\* find_buffer_by_handle returns NULL after setting the error and the code
\* goes on to read buf->b_ucmds: the call crashes, or reads a table that is
\* not there (taken as holding no command).
NvimBufDelUserCommand(buffer, name) ==
  LET target == find_buffer_by_handle(buffer)
      gap == IF buffer = -1 THEN ucmds ELSE b_ucmds[target.buf]
      r == DelFromTable(gap, name)
  IN  /\ pc = "run"
      /\ call' = [op |-> "nvim_buf_del_user_command", buffer |-> buffer,
                  name |-> name, command |-> NIL, opts |-> OptsNone]
      /\ result' = NoResult
      /\ UNCHANGED <<ea, cmdinfo, cmdline>>
      /\ IF buffer = -1
         THEN /\ ucmds' = r.gap
              /\ err' = r.err
              /\ UNCHANGED <<b_ucmds, pc>>
         ELSE IF target.buf = 0
         THEN /\ UNCHANGED <<ucmds, b_ucmds>>
              /\ \/ pc' = "crash" /\ err' = target.err
                 \/ pc' = pc /\ err' = ExceptionError("No such user-defined command")
         ELSE /\ b_ucmds' = [b_ucmds EXCEPT ![target.buf] = r.gap]
              /\ err' = r.err
              /\ UNCHANGED <<ucmds, pc>>

\* command.c 941-945: nvim_del_user_command
NvimDelUserCommand(name) == NvimBufDelUserCommand(-1, name)

\* command.c 1230-1252: nvim_buf_get_commands
NvimBufGetCommands(buffer, builtinopt) ==
  LET global == (buffer = -1)
      builtin == api_object_to_bool(builtinopt, "builtin", FALSE)
      target == find_buffer_by_handle(buffer)
      Empty == [kind |-> "commands", list |-> <<>>]
  IN  /\ pc = "run"
      /\ call' = [op |-> "nvim_buf_get_commands", buffer |-> buffer,
                  name |-> <<>>, command |-> NIL,
                  opts |-> [OptsNone EXCEPT !.force = builtinopt]]
      /\ UNCHANGED <<ucmds, b_ucmds>>
      /\ RegistryFrame
      /\ IF ERROR_SET(builtin.err)
         THEN err' = builtin.err /\ result' = Empty
         ELSE IF global
         THEN IF builtin.val
              THEN /\ err' = ValidationError("builtin=true not implemented")
                   /\ result' = Empty
              ELSE /\ err' = NoError
                   /\ result' = [kind |-> "commands", list |-> commands_array(ucmds)]
         ELSE /\ err' = target.err
              /\ result' = IF builtin.val \/ target.buf = 0 THEN Empty
                           ELSE [kind |-> "commands",
                                 list |-> commands_array(b_ucmds[target.buf])]

\* command.c 1217-1221: nvim_get_commands
NvimGetCommands(builtinopt) == NvimBufGetCommands(-1, builtinopt)

InitRegistry ==
  /\ ucmds = <<>>
  /\ b_ucmds = [b \in Buffers |-> <<>>]
  /\ pc = "run"
  /\ call = [op |-> "none", buffer |-> -1, name |-> <<>>, command |-> NIL,
             opts |-> OptsNone]
  /\ err = NoError
  /\ ea = NoEa
  /\ cmdinfo = NoCmdinfo
  /\ cmdline = NoCmdline
  /\ result = NoResult

NextRegistry ==
  \/ \E d \in GlobalDefines : NvimCreateUserCommand(d.name, d.command, d.opts)
  \/ \E d \in LocalDefines :
       NvimBufCreateUserCommand(d.buffer, d.name, d.command, d.opts)
  \/ \E name \in GlobalDeletes : NvimDelUserCommand(name)
  \/ \E d \in LocalDeletes : NvimBufDelUserCommand(d[1], d[2])
  \/ \E builtinopt \in GlobalLists : NvimGetCommands(builtinopt)
  \/ \E l \in LocalLists : NvimBufGetCommands(l[1], l[2])

SpecRegistry == InitRegistry /\ [][NextRegistry]_vars

----------------------------------------------------------------------------
(* nvim_cmd: the validator.                                                *)

\* printf("%d") of a number
RECURSIVE FmtNat(_)
FmtNat(n) ==
  IF n < 10 THEN <<Digits[n + 1]>>
  ELSE FmtNat(n \div 10) \o <<Digits[(n % 10) + 1]>>
FmtInt(n) == IF n < 0 THEN <<"-">> \o FmtNat(-n) ELSE FmtNat(n)

\* command.c 745-758: string_iswhite
string_iswhite(str) == \A i \in 1..Len(str) : ascii_iswhite(str[i])

\* external (usercmd.c): find_ucmd: a command whose name is the text, or the
\* only one whose name starts with it; 0 when there is none or several
IsPrefix(a, b) == Len(a) <= Len(b) /\ SubSeq(b, 1, Len(a)) = a
FindUcmdAbbrev(gap, name) ==
  LET hits == {i \in 1..Len(gap) : IsPrefix(name, gap[i].uc_name)}
  IN  IF FindUcmd(gap, name, 1) /= 0 THEN FindUcmd(gap, name, 1)
      ELSE IF Cardinality(hits) = 1 THEN CHOOSE i \in hits : TRUE
      ELSE 0

RECURSIVE SkipAlpha(_, _)
SkipAlpha(s, i) ==
  IF ASCII_ISALPHA(CharAt(s, i)) THEN SkipAlpha(s, i + 1) ELSE i

\* external (ex_docmd.c): find_ex_command at position p of a text, for the
\* user commands: the name is the letters and digits from p, looked up in
\* the table of the current buffer first and then in the global one; p is
\* where the name ends
find_ex_command(s, p) ==
  LET e == IF ASCII_ISUPPER(CharAt(s, p)) THEN SkipAlnum(s, p) ELSE SkipAlpha(s, p)
      name == SubSeq(s, p, e - 1)
      l == IF e > p THEN FindUcmdAbbrev(b_ucmds[curbuf], name) ELSE 0
      g == IF e > p THEN FindUcmdAbbrev(ucmds, name) ELSE 0
  IN  IF l /= 0
      THEN [cmdidx |-> "CMD_USER_BUF", useridx |-> l, uc |-> b_ucmds[curbuf][l], p |-> e]
      ELSE IF g /= 0
      THEN [cmdidx |-> "CMD_USER", useridx |-> g, uc |-> ucmds[g], p |-> e]
      ELSE [cmdidx |-> "CMD_SIZE", useridx |-> 0, uc |-> NIL, p |-> e]
IS_USER_CMDIDX(idx) == idx \in {"CMD_USER", "CMD_USER_BUF"}

\* command.c 323-333: the cleared exarg_T and CmdParseInfo of a call
ClearedEa ==
  [set |-> TRUE, cmdidx |-> "CMD_SIZE", useridx |-> 0, argt |-> {},
   addr_type |-> "ADDR_NONE", addr_count |-> 0, line1 |-> 0, line2 |-> 0,
   regname |-> "NUL", forceit |-> FALSE,
   cmd |-> 0, arg |-> 0, args |-> <<>>, arglens |-> <<>>, argc |-> 0,
   nextcmd |-> <<>>]
ClearedCmdmod ==
  [cmod_flags |-> {}, cmod_split |-> {}, cmod_tab |-> 0, cmod_verbose |-> 0,
   cmod_filter_pat |-> NIL, cmod_filter_force |-> FALSE,
   cmod_filter_regprog |-> FALSE]
ClearedCmdinfo ==
  [set |-> TRUE, cmdmod |-> ClearedCmdmod, magic |-> [file |-> FALSE, bar |-> FALSE]]

\* the working state of one nvim_cmd call between two of its steps
Fail(s, step, e) == [s EXCEPT !.err = e, !.step = step]

\* command.c 359-360: the 'output' option
OutputStage(opts) ==
  LET o == api_object_to_bool(opts.output, "'output'", FALSE)
  IN  [err |-> o.err, step |-> IF ERROR_SET(o.err) THEN "output" ELSE "",
       ea |-> ClearedEa, cmdinfo |-> ClearedCmdinfo, args |-> <<>>,
       output |-> o.val]

\* command.c 362-396: the command name
NameStage(cmd, s) ==
  IF ERROR_SET(s.err) THEN s
  ELSE IF ~HAS_KEY(cmd.cmd) \/ cmd.cmd.type /= "String" \/ CharAt(cmd.cmd.v, 1) = "NUL"
  THEN Fail(s, "name", ValidationError("'cmd' must be a non-empty String"))
  ELSE LET f == find_ex_command(cmd.cmd.v, 1)
       IN  IF f.cmdidx = "CMD_SIZE"
           THEN Fail(s, "name", ValidationError("Command not found"))
           ELSE [s EXCEPT !.ea.cmdidx = f.cmdidx, !.ea.useridx = f.useridx,
                          !.ea.argt = f.uc.uc_argt,
                          !.ea.addr_type = f.uc.uc_addr_type]

\* command.c 410-433: one argument as the string the command line gets
ArgToString(elem) ==
  CASE elem.type = "Boolean" -> IF elem.v THEN <<"1">> ELSE <<"0">>
    [] elem.type \in {"Integer", "Buffer", "Window", "Tabpage"} -> FmtInt(elem.v.lo)
    [] OTHER -> elem.v
ArgInvalid(elem) ==
  CASE elem.type \in {"Boolean", "Integer", "Buffer", "Window", "Tabpage"} -> FALSE
    [] elem.type = "String" -> string_iswhite(elem.v)
    [] OTHER -> TRUE
ArgError(elem) ==
  IF elem.type = "String"
  THEN ValidationError("String command argument must have at least one non-whitespace character")
  ELSE ValidationError("Invalid type for command argument")

\* command.c 441-457: bool argc_valid
argc_valid(argt, size) ==
  LET bits == argt \cap {"EX_EXTRA", "EX_NOSPC", "EX_NEEDARG"}
  IN  CASE bits = {"EX_EXTRA", "EX_NOSPC", "EX_NEEDARG"} -> size = 1
        [] bits = {"EX_EXTRA", "EX_NOSPC"} -> size <= 1
        [] bits = {"EX_EXTRA", "EX_NEEDARG"} -> size >= 1
        [] bits = {"EX_EXTRA"} -> TRUE
        [] OTHER -> size = 0

\* command.c 399-462: the arguments, checked only when 'args' is given
ArgsStage(cmd, s) ==
  IF ERROR_SET(s.err) \/ ~HAS_KEY(cmd.args) THEN s
  ELSE IF cmd.args.type /= "Array"
  THEN Fail(s, "args", ValidationError("'args' must be an Array"))
  ELSE LET items == cmd.args.v
           bad == {i \in 1..Len(items) : ArgInvalid(items[i])}
           first == CHOOSE i \in bad : \A j \in bad : i <= j
       IN  IF bad /= {}
           THEN Fail([s EXCEPT !.args = [i \in 1..(first - 1) |-> ArgToString(items[i])]],
                     "args", ArgError(items[first]))
           ELSE IF ~argc_valid(s.ea.argt, Len(items))
           THEN Fail([s EXCEPT !.args = [i \in 1..Len(items) |-> ArgToString(items[i])]],
                     "args", ValidationError("Incorrect number of arguments supplied"))
           ELSE [s EXCEPT !.args = [i \in 1..Len(items) |-> ArgToString(items[i])]]

\* external (ex_docmd.c): invalid_range: a negative or backwards range, or
\* one outside what the address kind counts
invalid_range(e) ==
  \/ e.line1 < 0 \/ e.line2 < 0 \/ e.line1 > e.line2
  \/ /\ "EX_RANGE" \in e.argt
     /\ e.addr_type = "ADDR_LINES"
     /\ e.line2 > ml_line_count
  \/ /\ "EX_RANGE" \in e.argt
     /\ e.addr_type = "ADDR_BUFFERS"
     /\ (e.line1 < 1 \/ e.line2 > Cardinality(Buffers))

\* command.c 468-495: the range
RangeStage(cmd, s) ==
  IF ERROR_SET(s.err) \/ ~HAS_KEY(cmd.range) THEN s
  ELSE IF "EX_RANGE" \notin s.ea.argt
  THEN Fail(s, "range", ValidationError("Command cannot accept a range"))
  ELSE IF cmd.range.type /= "Array"
  THEN Fail(s, "range", ValidationError("'range' must be an Array"))
  ELSE IF Len(cmd.range.v) > 2
  THEN Fail(s, "range", ValidationError("'range' cannot contain more than two elements"))
  ELSE LET range == cmd.range.v
           counted == [s EXCEPT !.ea.addr_count = Len(range)]
           lined == IF Len(range) > 0
                    THEN [counted EXCEPT !.ea.line1 = Narrow32(range[1].v),
                                         !.ea.line2 = Narrow32(range[Len(range)].v)]
                    ELSE counted
       IN  IF \E i \in 1..Len(range) :
                range[i].type /= "Integer" \/ IsNeg64(range[i].v)
           THEN Fail(counted, "range",
                     ValidationError("'range' element must be a non-negative Integer"))
           ELSE IF invalid_range(lined.ea)
           THEN Fail(lined, "range", ValidationError("Invalid range provided"))
           ELSE lined

\* external (ex_docmd.c): get_cmd_default_range, the cursor line kept inside
\* the buffer for lines, the current buffer for buffers
get_cmd_default_range(e) ==
  CASE e.addr_type \in {"ADDR_LINES", "ADDR_OTHER"} ->
         IF w_cursor_lnum > ml_line_count THEN ml_line_count ELSE w_cursor_lnum
    [] e.addr_type = "ADDR_BUFFERS" -> curbuf
    [] OTHER -> 0

\* external (ex_docmd.c): set_cmd_dflall_range, the whole extent
set_cmd_dflall_range(e) ==
  CASE e.addr_type \in {"ADDR_LINES", "ADDR_OTHER"} ->
         [e EXCEPT !.line1 = 1, !.line2 = ml_line_count]
    [] e.addr_type = "ADDR_BUFFERS" ->
         [e EXCEPT !.line1 = 1, !.line2 = Cardinality(Buffers)]
    [] OTHER -> [e EXCEPT !.line1 = 1]

\* a default range that is the current position for every address kind
DefaultRangeCursor(e) ==
  IF e.addr_count /= 0 THEN e
  ELSE IF "EX_DFLALL" \in e.argt THEN set_cmd_dflall_range(e)
  ELSE [e EXCEPT !.line1 = get_cmd_default_range(e),
                 !.line2 = get_cmd_default_range(e)]

\* command.c 496-507: the default range
DefaultRange(e) ==
  IF e.addr_count /= 0 THEN e
  ELSE IF "EX_DFLALL" \in e.argt THEN set_cmd_dflall_range(e)
  ELSE LET d == get_cmd_default_range(e)
       IN  [e EXCEPT !.line1 = d,
                     !.line2 = IF e.addr_type = "ADDR_OTHER" THEN 1 ELSE d]
DefaultRangeStage(s) ==
  IF ERROR_SET(s.err) THEN s ELSE [s EXCEPT !.ea = DefaultRange(s.ea)]

\* external (ex_docmd.c): set_cmd_count: for lines the count extends the
\* range from its last line (kept inside the buffer when validating), for
\* the other address kinds it is the last address
set_cmd_count(e, count, validate) ==
  IF e.addr_type /= "ADDR_LINES"
  THEN [e EXCEPT !.line2 = count,
                 !.addr_count = IF e.addr_count = 0 THEN 1 ELSE e.addr_count]
  ELSE LET l2 == e.line2 + count - 1
       IN  [e EXCEPT !.line1 = e.line2,
                     !.line2 = IF validate /\ l2 > ml_line_count
                               THEN ml_line_count ELSE l2,
                     !.addr_count = e.addr_count + 1]

\* a count check that does not ask whether the command takes a count
CountStageAnyCommand(cmd, s) ==
  IF ERROR_SET(s.err) \/ ~HAS_KEY(cmd.count) THEN s
  ELSE IF cmd.count.type /= "Integer" \/ IsNeg64(cmd.count.v)
  THEN Fail(s, "count", ValidationError("'count' must be a non-negative Integer"))
  ELSE [s EXCEPT !.ea = set_cmd_count(s.ea, Narrow32(cmd.count.v), TRUE)]

\* command.c 509-516: the count
CountStage(cmd, s) ==
  IF ERROR_SET(s.err) \/ ~HAS_KEY(cmd.count) THEN s
  ELSE IF "EX_COUNT" \notin s.ea.argt
  THEN Fail(s, "count", ValidationError("Command cannot accept a count"))
  ELSE IF cmd.count.type /= "Integer" \/ IsNeg64(cmd.count.v)
  THEN Fail(s, "count", ValidationError("'count' must be a non-negative Integer"))
  ELSE [s EXCEPT !.ea = set_cmd_count(s.ea, Narrow32(cmd.count.v), TRUE)]

\* external (ops.c): valid_yank_reg: letters, digits and the special
\* registers; the read-only ones only when not writing
valid_yank_reg(regname, writing) ==
  \/ ASCII_ISALNUM(regname)
  \/ ~writing /\ regname \in {"/", ".", "%", ":", "="}
  \/ regname \in {"#", "\"", "-", "_", "*", "+"}

\* command.c 518-531: the register (a user command is not CMD_put and is a
\* user command: the register is checked as one that is read)
RegStage(cmd, s) ==
  IF ERROR_SET(s.err) \/ ~HAS_KEY(cmd.reg) THEN s
  ELSE IF "EX_REGSTR" \notin s.ea.argt
  THEN Fail(s, "reg", ValidationError("Command cannot accept a register"))
  ELSE IF cmd.reg.type /= "String" \/ Len(cmd.reg.v) /= 1
  THEN Fail(s, "reg", ValidationError("'reg' must be a single character"))
  ELSE IF cmd.reg.v[1] = "="
  THEN Fail(s, "reg", ValidationError("Cannot use register ="))
  ELSE IF ~valid_yank_reg(cmd.reg.v[1], ~IS_USER_CMDIDX(s.ea.cmdidx))
  THEN Fail(s, "reg", ValidationError("Invalid register"))
  ELSE [s EXCEPT !.ea.regname = cmd.reg.v[1]]

\* command.c 533-536: the bang
BangStage(cmd, s) ==
  LET b == api_object_to_bool(cmd.bang, "'bang'", FALSE)
  IN  IF ERROR_SET(s.err) THEN s
      ELSE IF ERROR_SET(b.err) THEN Fail(s, "bang", b.err)
      ELSE IF b.val /\ "EX_BANG" \notin s.ea.argt
      THEN Fail([s EXCEPT !.ea.forceit = TRUE], "bang",
                ValidationError("Command cannot accept a bang"))
      ELSE [s EXCEPT !.ea.forceit = b.val]

\* command.c 538-559: the magic flags
MagicStage(cmd, s) ==
  IF ERROR_SET(s.err) THEN s
  ELSE IF ~HAS_KEY(cmd.magic)
  THEN [s EXCEPT !.cmdinfo.magic = [file |-> "EX_XFILE" \in s.ea.argt,
                                    bar |-> "EX_TRLBAR" \in s.ea.argt]]
  ELSE IF cmd.magic.type /= "Dictionary"
  THEN Fail(s, "magic", ValidationError("'magic' must be a Dictionary"))
  ELSE LET file == api_object_to_bool(cmd.magic.v.file, "'magic.file'",
                                      "EX_XFILE" \in s.ea.argt)
           bar == api_object_to_bool(cmd.magic.v.bar, "'magic.bar'",
                                     "EX_TRLBAR" \in s.ea.argt)
       IN  IF ERROR_SET(file.err) THEN Fail(s, "magic", file.err)
           ELSE IF ERROR_SET(bar.err)
           THEN Fail([s EXCEPT !.cmdinfo.magic.file = file.val], "magic", bar.err)
           ELSE [s EXCEPT !.cmdinfo.magic = [file |-> file.val, bar |-> bar.val],
                          !.ea.argt = IF file.val THEN @ \cup {"EX_XFILE"}
                                      ELSE @ \ {"EX_XFILE"}]

\* the words of the command line, as characters
W_tab == <<"t", "a", "b">>
W_verbose == <<"v", "e", "r", "b", "o", "s", "e">>
W_silent == <<"s", "i", "l", "e", "n", "t">>
W_unsilent == <<"u", "n", "s", "i", "l", "e", "n", "t">>
W_aboveleft == <<"a", "b", "o", "v", "e", "l", "e", "f", "t">>
W_leftabove == <<"l", "e", "f", "t", "a", "b", "o", "v", "e">>
W_belowright == <<"b", "e", "l", "o", "w", "r", "i", "g", "h", "t">>
W_rightbelow == <<"r", "i", "g", "h", "t", "b", "e", "l", "o", "w">>
W_topleft == <<"t", "o", "p", "l", "e", "f", "t">>
W_botright == <<"b", "o", "t", "r", "i", "g", "h", "t">>
W_vertical == <<"v", "e", "r", "t", "i", "c", "a", "l">>
W_horizontal == <<"h", "o", "r", "i", "z", "o", "n", "t", "a", "l">>
W_sandbox == <<"s", "a", "n", "d", "b", "o", "x">>
W_noautocmd == <<"n", "o", "a", "u", "t", "o", "c", "m", "d">>
W_browse == <<"b", "r", "o", "w", "s", "e">>
W_confirm == <<"c", "o", "n", "f", "i", "r", "m">>
W_hide == <<"h", "i", "d", "e">>
W_keepalt == <<"k", "e", "e", "p", "a", "l", "t">>
W_keepjumps == <<"k", "e", "e", "p", "j", "u", "m", "p", "s">>
W_keepmarks == <<"k", "e", "e", "p", "m", "a", "r", "k", "s">>
W_keeppatterns == <<"k", "e", "e", "p", "p", "a", "t", "t", "e", "r", "n", "s">>
W_lockmarks == <<"l", "o", "c", "k", "m", "a", "r", "k", "s">>
W_noswapfile == <<"n", "o", "s", "w", "a", "p", "f", "i", "l", "e">>
SP == <<" ">>

\* a cmd_mods dictionary with no key set
ModsNone ==
  [filter |-> NIL, silent |-> NIL, emsg_silent |-> NIL, unsilent |-> NIL,
   sandbox |-> NIL, noautocmd |-> NIL, browse |-> NIL, confirm |-> NIL,
   hide |-> NIL, horizontal |-> NIL, keepalt |-> NIL, keepjumps |-> NIL,
   keepmarks |-> NIL, keeppatterns |-> NIL, lockmarks |-> NIL,
   noswapfile |-> NIL, tab |-> NIL, verbose |-> NIL, vertical |-> NIL,
   split |-> NIL]
FilterNone == [pattern |-> NIL, force |-> NIL]

\* command.c 648-661: the boolean modifiers, in the order they are read
CmodFlagKeys ==
  << <<"silent", "CMOD_SILENT">>,
     <<"emsg_silent", "CMOD_ERRSILENT">>,
     <<"unsilent", "CMOD_UNSILENT">>,
     <<"sandbox", "CMOD_SANDBOX">>,
     <<"noautocmd", "CMOD_NOAUTOCMD">>,
     <<"browse", "CMOD_BROWSE">>,
     <<"confirm", "CMOD_CONFIRM">>,
     <<"hide", "CMOD_HIDE">>,
     <<"keepalt", "CMOD_KEEPALT">>,
     <<"keepjumps", "CMOD_KEEPJUMPS">>,
     <<"keepmarks", "CMOD_KEEPMARKS">>,
     <<"keeppatterns", "CMOD_KEEPPATTERNS">>,
     <<"lockmarks", "CMOD_LOCKMARKS">>,
     <<"noswapfile", "CMOD_NOSWAPFILE">> >>

\* command.c 571-598: the filter pattern that is kept
ModsFilter(m) ==
  LET f == m.filter.v
      force == api_object_to_bool(f.force, "'mods.filter.force'", FALSE).val
  IN  IF HAS_KEY(m.filter) /\ HAS_KEY(f.pattern)
         /\ (CharAt(f.pattern.v, 1) /= "NUL" \/ force)
      THEN [pat |-> STRING_OBJ(f.pattern.v), force |-> force, regprog |-> TRUE]
      ELSE [pat |-> NIL,
            force |-> HAS_KEY(m.filter) /\ HAS_KEY(f.pattern) /\ force,
            regprog |-> FALSE]

\* tab and verbose stored as they are given, without the one added
ModsNumberAsGiven(o) ==
  IF HAS_KEY(o) /\ Narrow32(o.v) >= 0 THEN Narrow32(o.v) ELSE 0

\* command.c 600-616: tab and verbose: a value whose (int) is negative is
\* ignored, any other is stored plus one
ModsNumber(o) ==
  IF HAS_KEY(o) /\ Narrow32(o.v) >= 0 THEN Narrow32(o.v) + 1 ELSE 0

\* command.c 618-646: the split bits
ModsSplit(m) ==
  (IF api_object_to_bool(m.vertical, "'mods.vertical'", FALSE).val
   THEN {"WSP_VERT"} ELSE {})
  \cup (IF api_object_to_bool(m.horizontal, "'mods.horizontal'", FALSE).val
        THEN {"WSP_HOR"} ELSE {})
  \cup (IF ~HAS_KEY(m.split) THEN {}
        ELSE IF m.split.v \in {W_aboveleft, W_leftabove} THEN {"WSP_ABOVE"}
        ELSE IF m.split.v \in {W_belowright, W_rightbelow} THEN {"WSP_BELOW"}
        ELSE IF m.split.v = W_topleft THEN {"WSP_TOP"}
        ELSE IF m.split.v = W_botright THEN {"WSP_BOT"}
        ELSE {})
SplitInvalid(m) ==
  m.split.v \notin {<<>>, W_aboveleft, W_leftabove, W_belowright, W_rightbelow,
                    W_topleft, W_botright}

\* command.c 648-667: the flag bits; CMOD_ERRSILENT brings CMOD_SILENT
ModsFlags(m) ==
  LET read == {CmodFlagKeys[i][2] : i \in
                 {j \in 1..Len(CmodFlagKeys) :
                    api_object_to_bool(m[CmodFlagKeys[j][1]], "", FALSE).val}}
  IN  IF "CMOD_ERRSILENT" \in read THEN read \cup {"CMOD_SILENT"} ELSE read

\* command.c 561-672: the checks of the modifiers, in the order of the code
ModsChecks(m, argt) ==
  << <<HAS_KEY(m.filter) /\ m.filter.type /= "Dictionary",
       ValidationError("'mods.filter' must be a Dictionary")>>,
     <<HAS_KEY(m.filter) /\ m.filter.type = "Dictionary"
         /\ HAS_KEY(m.filter.v.pattern) /\ m.filter.v.pattern.type /= "String",
       ValidationError("'mods.filter.pattern' must be a String")>>,
     <<HAS_KEY(m.filter) /\ m.filter.type = "Dictionary"
         /\ HAS_KEY(m.filter.v.pattern)
         /\ ERROR_SET(api_object_to_bool(m.filter.v.force, "", FALSE).err),
       ValidationError("'mods.filter.force'")>>,
     <<HAS_KEY(m.tab) /\ m.tab.type /= "Integer",
       ValidationError("'mods.tab' must be an Integer")>>,
     <<HAS_KEY(m.verbose) /\ m.verbose.type /= "Integer",
       ValidationError("'mods.verbose' must be an Integer")>>,
     <<ERROR_SET(api_object_to_bool(m.vertical, "", FALSE).err),
       ValidationError("'mods.vertical'")>>,
     <<ERROR_SET(api_object_to_bool(m.horizontal, "", FALSE).err),
       ValidationError("'mods.horizontal'")>>,
     <<HAS_KEY(m.split) /\ m.split.type /= "String",
       ValidationError("'mods.split' must be a String")>>,
     <<HAS_KEY(m.split) /\ m.split.type = "String" /\ SplitInvalid(m),
       ValidationError("Invalid value for 'mods.split'")>>,
     <<\E j \in 1..Len(CmodFlagKeys) :
         ERROR_SET(api_object_to_bool(m[CmodFlagKeys[j][1]], "", FALSE).err),
       ValidationError("'mods' flag")>>,
     <<"CMOD_SANDBOX" \in ModsFlags(m) /\ "EX_SBOXOK" \notin argt,
       ValidationError("Command cannot be run in sandbox")>> >>

\* command.c 571-598: the checks of ModsChecks made before the filter is kept
FilterChecks == 3

\* command.c 561-672: the modifiers; a check that fails after line 597 leaves
\* the filter pattern and its program in cmdinfo
ModsStage(cmd, s) ==
  IF ERROR_SET(s.err) \/ ~HAS_KEY(cmd.mods) THEN s
  ELSE IF cmd.mods.type /= "Dictionary"
  THEN Fail(s, "mods", ValidationError("'mods' must be a Dictionary"))
  ELSE LET m == cmd.mods.v
           checks == ModsChecks(m, s.ea.argt)
           k == FirstFailed(checks, 1)
           f == ModsFilter(m)
       IN  IF k > FilterChecks
           THEN Fail([s EXCEPT !.cmdinfo.cmdmod.cmod_filter_pat = f.pat,
                               !.cmdinfo.cmdmod.cmod_filter_force = f.force,
                               !.cmdinfo.cmdmod.cmod_filter_regprog = f.regprog],
                     "mods", checks[k][2])
           ELSE IF k /= 0 THEN Fail(s, "mods", checks[k][2])
           ELSE [s EXCEPT !.cmdinfo.cmdmod =
                   [cmod_flags |-> ModsFlags(m), cmod_split |-> ModsSplit(m),
                    cmod_tab |-> ModsNumber(m.tab),
                    cmod_verbose |-> ModsNumber(m.verbose),
                    cmod_filter_pat |-> f.pat, cmod_filter_force |-> f.force,
                    cmod_filter_regprog |-> f.regprog]]

\* the register read before the count
ValidateRegFirst(cmd, opts) ==
  ModsStage(cmd, MagicStage(cmd, BangStage(cmd, CountStage(cmd, RegStage(cmd,
    DefaultRangeStage(RangeStage(cmd, ArgsStage(cmd, NameStage(cmd,
      OutputStage(opts))))))))))

\* command.c 359-672: nvim_cmd up to the point where the line is built
Validate(cmd, opts) ==
  ModsStage(cmd, MagicStage(cmd, BangStage(cmd, RegStage(cmd, CountStage(cmd,
    DefaultRangeStage(RangeStage(cmd, ArgsStage(cmd, NameStage(cmd,
      OutputStage(opts))))))))))

----------------------------------------------------------------------------
(* build_cmdline_str: the builder.                                         *)

\* command.c 803-822: the modifiers written one after the other
CmodAppendKeys ==
  << <<"CMOD_SANDBOX", W_sandbox>>,
     <<"CMOD_NOAUTOCMD", W_noautocmd>>,
     <<"CMOD_BROWSE", W_browse>>,
     <<"CMOD_CONFIRM", W_confirm>>,
     <<"CMOD_HIDE", W_hide>>,
     <<"CMOD_KEEPALT", W_keepalt>>,
     <<"CMOD_KEEPJUMPS", W_keepjumps>>,
     <<"CMOD_KEEPMARKS", W_keepmarks>>,
     <<"CMOD_KEEPPATTERNS", W_keeppatterns>>,
     <<"CMOD_LOCKMARKS", W_lockmarks>>,
     <<"CMOD_NOSWAPFILE", W_noswapfile>> >>
RECURSIVE AppendFlags(_, _)
AppendFlags(flags, i) ==
  IF i > Len(CmodAppendKeys) THEN <<>>
  ELSE (IF CmodAppendKeys[i][1] \in flags THEN CmodAppendKeys[i][2] \o SP ELSE <<>>)
       \o AppendFlags(flags, i + 1)

\* a modifier prefix that writes silent and errsilent each on its own
BuildModsSilentTwice(cmod) ==
  (IF cmod.cmod_tab /= 0 THEN FmtInt(cmod.cmod_tab - 1) \o W_tab \o SP ELSE <<>>)
  \o (IF "CMOD_ERRSILENT" \in cmod.cmod_flags THEN W_silent \o <<"!", " ">> ELSE <<>>)
  \o (IF "CMOD_SILENT" \in cmod.cmod_flags THEN W_silent \o SP ELSE <<>>)
  \o AppendFlags(cmod.cmod_flags, 1)

\* a modifier prefix that writes verbose before tab and no split direction
BuildModsVerboseFirst(cmod) ==
  (IF cmod.cmod_verbose > 0
   THEN FmtInt(cmod.cmod_verbose - 1) \o W_verbose \o SP ELSE <<>>)
  \o (IF cmod.cmod_tab /= 0 THEN FmtInt(cmod.cmod_tab - 1) \o W_tab \o SP ELSE <<>>)
  \o (IF "CMOD_ERRSILENT" \in cmod.cmod_flags THEN W_silent \o <<"!", " ">>
      ELSE IF "CMOD_SILENT" \in cmod.cmod_flags THEN W_silent \o SP
      ELSE <<>>)
  \o (IF "CMOD_UNSILENT" \in cmod.cmod_flags THEN W_unsilent \o SP ELSE <<>>)
  \o (IF "WSP_VERT" \in cmod.cmod_split THEN W_vertical \o SP ELSE <<>>)
  \o (IF "WSP_HOR" \in cmod.cmod_split THEN W_horizontal \o SP ELSE <<>>)
  \o AppendFlags(cmod.cmod_flags, 1)

\* command.c 768-822: the modifier prefix
BuildMods(cmod) ==
  LET split == cmod.cmod_split \cap {"WSP_ABOVE", "WSP_BELOW", "WSP_TOP", "WSP_BOT"}
  IN  (IF cmod.cmod_tab /= 0 THEN FmtInt(cmod.cmod_tab - 1) \o W_tab \o SP ELSE <<>>)
      \o (IF cmod.cmod_verbose > 0
          THEN FmtInt(cmod.cmod_verbose - 1) \o W_verbose \o SP ELSE <<>>)
      \o (IF "CMOD_ERRSILENT" \in cmod.cmod_flags THEN W_silent \o <<"!", " ">>
          ELSE IF "CMOD_SILENT" \in cmod.cmod_flags THEN W_silent \o SP
          ELSE <<>>)
      \o (IF "CMOD_UNSILENT" \in cmod.cmod_flags THEN W_unsilent \o SP ELSE <<>>)
      \o (CASE split = {"WSP_ABOVE"} -> W_aboveleft \o SP
            [] split = {"WSP_BELOW"} -> W_belowright \o SP
            [] split = {"WSP_TOP"} -> W_topleft \o SP
            [] split = {"WSP_BOT"} -> W_botright \o SP
            [] OTHER -> <<>>)
      \o (IF "WSP_VERT" \in cmod.cmod_split THEN W_vertical \o SP ELSE <<>>)
      \o (IF "WSP_HOR" \in cmod.cmod_split THEN W_horizontal \o SP ELSE <<>>)
      \o AppendFlags(cmod.cmod_flags, 1)

\* a range that is written from its last line only
BuildRangeLastLine(e) ==
  IF "EX_RANGE" \notin e.argt THEN <<>>
  ELSE IF e.addr_count >= 1 THEN FmtInt(e.line2)
  ELSE <<>>

\* command.c 825-833: the range
BuildRange(e) ==
  IF "EX_RANGE" \notin e.argt THEN <<>>
  ELSE IF e.addr_count = 1 THEN FmtInt(e.line2)
  ELSE IF e.addr_count > 1 THEN FmtInt(e.line1) \o <<",">> \o FmtInt(e.line2)
  ELSE <<>>

\* command.c 839-847: the bang and the register
BuildBangReg(e) ==
  (IF "EX_BANG" \in e.argt /\ e.forceit THEN <<"!">> ELSE <<>>)
  \o (IF "EX_REGSTR" \in e.argt /\ e.regname /= "NUL" THEN <<" ", e.regname>> ELSE <<>>)

\* a builder that puts no space before an argument
RECURSIVE BuildArgsUnspaced(_, _)
BuildArgsUnspaced(args, i) ==
  IF i > Len(args) THEN <<>> ELSE args[i] \o BuildArgsUnspaced(args, i + 1)

\* command.c 852-857: each argument after one space, as it is
RECURSIVE BuildArgs(_, _)
BuildArgs(args, i) ==
  IF i > Len(args) THEN <<>> ELSE SP \o args[i] \o BuildArgs(args, i + 1)

\* offsets that do not count the space before each argument
RECURSIVE ArgOffsetsUnspaced(_, _, _)
ArgOffsetsUnspaced(args, i, offset) ==
  IF i > Len(args) THEN <<>>
  ELSE <<offset>> \o ArgOffsetsUnspaced(args, i + 1, offset + Len(args[i]))

\* command.c 866-871: where each argument starts (positions count from 1)
RECURSIVE ArgOffsets(_, _, _)
ArgOffsets(args, i, offset) ==
  IF i > Len(args) THEN <<>>
  ELSE <<offset + 1>> \o ArgOffsets(args, i + 1, offset + 1 + Len(args[i]))

\* command.c 761-889: build_cmdline_str: the line and the exarg_T that
\* points into it (a user command is never :make or :grep, which
\* replace_makeprg would rewrite)
build_cmdline_str(e, info, cmdname, args) ==
  LET head == BuildMods(info.cmdmod) \o BuildRange(e)
      named == head \o cmdname \o BuildBangReg(e)
      line == named \o BuildArgs(args, 1)
      offsets == ArgOffsets(args, 1, Len(named) + 1)
  IN  [cmdline |-> line,
       ea |-> [e EXCEPT !.addr_count = IF "EX_RANGE" \in e.argt /\ @ > 1 THEN 2 ELSE @,
                        !.cmd = Len(head) + 1,
                        !.argc = Len(args),
                        !.arglens = [i \in 1..Len(args) |-> Len(args[i])],
                        !.args = offsets,
                        !.arg = IF Len(args) > 0 THEN offsets[1] ELSE Len(line) + 1]]

----------------------------------------------------------------------------
(* nvim_parse_cmd: the parser.                                             *)

RECURSIVE skipwhite(_, _)
skipwhite(s, p) == IF ascii_iswhite(CharAt(s, p)) THEN skipwhite(s, p + 1) ELSE p
RECURSIVE skipdigits(_, _)
skipdigits(s, p) == IF ascii_isdigit(CharAt(s, p)) THEN skipdigits(s, p + 1) ELSE p
RECURSIVE getdigits(_, _, _)
getdigits(s, p, acc) ==
  IF ascii_isdigit(CharAt(s, p))
  THEN getdigits(s, p + 1, acc * 10 + DigitVal(CharAt(s, p)))
  ELSE acc
RECURSIVE skip_colon_white(_, _)
skip_colon_white(s, p) ==
  IF CharAt(s, p) \in {" ", "\t", ":"} THEN skip_colon_white(s, p + 1) ELSE p

\* external (ex_docmd.c): skip_range: the characters a range is written with
RangeChars ==
  DigitSet \cup {" ", "\t", ".", "$", "%", "'", "/", "?", "-", "+", ",", ";", "\\"}
RECURSIVE skip_range(_, _)
skip_range(s, p) == IF CharAt(s, p) \in RangeChars THEN skip_range(s, p + 1) ELSE p

\* external (ex_docmd.c): checkforcmd: the text at p is the word or an
\* abbreviation of it of at least len letters, and no letter follows; the
\* position after the word and the white space behind it, 0 for no match
RECURSIVE MatchLen(_, _, _, _)
MatchLen(s, p, word, i) ==
  IF i < Len(word) /\ CharAt(s, p + i) = word[i + 1]
  THEN MatchLen(s, p, word, i + 1) ELSE i
checkforcmd(s, p, word, len) ==
  LET i == MatchLen(s, p, word, 0)
  IN  IF i >= len /\ ~ASCII_ISALPHA(CharAt(s, p + i)) THEN skipwhite(s, p + i) ELSE 0

\* external (ex_docmd.c): the modifier words of parse_command_modifiers
\* that set one bit, with their shortest abbreviation ("tab" and "verbose"
\* take a number and are read apart)
CmodWords ==
  << [word |-> W_aboveleft, len |-> 3, split |-> {"WSP_ABOVE"}, flag |-> {}],
     [word |-> W_belowright, len |-> 3, split |-> {"WSP_BELOW"}, flag |-> {}],
     [word |-> W_browse, len |-> 3, split |-> {}, flag |-> {"CMOD_BROWSE"}],
     [word |-> W_botright, len |-> 2, split |-> {"WSP_BOT"}, flag |-> {}],
     [word |-> W_confirm, len |-> 4, split |-> {}, flag |-> {"CMOD_CONFIRM"}],
     [word |-> W_horizontal, len |-> 3, split |-> {"WSP_HOR"}, flag |-> {}],
     [word |-> W_hide, len |-> 3, split |-> {}, flag |-> {"CMOD_HIDE"}],
     [word |-> W_keepmarks, len |-> 3, split |-> {}, flag |-> {"CMOD_KEEPMARKS"}],
     [word |-> W_keepalt, len |-> 5, split |-> {}, flag |-> {"CMOD_KEEPALT"}],
     [word |-> W_keeppatterns, len |-> 5, split |-> {}, flag |-> {"CMOD_KEEPPATTERNS"}],
     [word |-> W_keepjumps, len |-> 5, split |-> {}, flag |-> {"CMOD_KEEPJUMPS"}],
     [word |-> W_lockmarks, len |-> 3, split |-> {}, flag |-> {"CMOD_LOCKMARKS"}],
     [word |-> W_leftabove, len |-> 5, split |-> {"WSP_ABOVE"}, flag |-> {}],
     [word |-> W_noautocmd, len |-> 3, split |-> {}, flag |-> {"CMOD_NOAUTOCMD"}],
     [word |-> W_noswapfile, len |-> 3, split |-> {}, flag |-> {"CMOD_NOSWAPFILE"}],
     [word |-> W_rightbelow, len |-> 6, split |-> {"WSP_BELOW"}, flag |-> {}],
     [word |-> W_sandbox, len |-> 3, split |-> {}, flag |-> {"CMOD_SANDBOX"}],
     [word |-> W_silent, len |-> 3, split |-> {}, flag |-> {"CMOD_SILENT"}],
     [word |-> W_topleft, len |-> 2, split |-> {"WSP_TOP"}, flag |-> {}],
     [word |-> W_unsilent, len |-> 3, split |-> {}, flag |-> {"CMOD_UNSILENT"}],
     [word |-> W_vertical, len |-> 4, split |-> {"WSP_VERT"}, flag |-> {}] >>

\* external (ex_docmd.c): parse_command_modifiers from position p on: the
\* modifiers read, the position of what follows them, and whether a command
\* follows at all
RECURSIVE parse_command_modifiers(_, _, _)
parse_command_modifiers(s, p, cmod) ==
  LET c == skip_colon_white(s, p)
      q == skip_range(s, c)
      tab == checkforcmd(s, q, W_tab, 3)
      verbose == checkforcmd(s, q, W_verbose, 4)
      tabnr == getdigits(s, c, 0)
      hits == {j \in 1..Len(CmodWords) :
                 checkforcmd(s, c, CmodWords[j].word, CmodWords[j].len) /= 0}
      j == CHOOSE j \in hits : \A k \in hits : j <= k
      w == CmodWords[j]
      after == checkforcmd(s, c, w.word, w.len)
      bang == w.word = W_silent /\ CharAt(s, after) = "!"
              /\ ~ascii_iswhite(CharAt(s, after - 1))
      set == [cmod EXCEPT !.cmod_split = @ \cup w.split,
                          !.cmod_flags = @ \cup w.flag
                            \cup (IF bang THEN {"CMOD_ERRSILENT"} ELSE {})]
  IN  IF CharAt(s, c) \in {"NUL", "\""}
      THEN [ok |-> FALSE, errormsg |-> "", pos |-> c, cmod |-> cmod]
      ELSE IF tab /= 0
      THEN IF ascii_isdigit(CharAt(s, c)) /\ tabnr > LAST_TAB_NR
           THEN [ok |-> FALSE, errormsg |-> "E16: Invalid range", pos |-> c,
                 cmod |-> cmod]
           ELSE parse_command_modifiers(s, tab,
                  [cmod EXCEPT !.cmod_tab = IF ascii_isdigit(CharAt(s, c))
                                            THEN tabnr + 1 ELSE tabpage_index + 1])
      ELSE IF verbose /= 0
      THEN parse_command_modifiers(s, verbose,
             [cmod EXCEPT !.cmod_verbose = IF ascii_isdigit(CharAt(s, c))
                                           THEN getdigits(s, c, 0) + 1 ELSE 2])
      ELSE IF hits /= {} /\ ~(w.word = W_hide /\ ends_excmd(CharAt(s, after)))
      THEN parse_command_modifiers(s, IF bang THEN skipwhite(s, after + 1) ELSE after, set)
      ELSE [ok |-> TRUE, errormsg |-> "", pos |-> c, cmod |-> cmod]

\* external (ex_docmd.c): parse_cmd_address for addresses written as
\* numbers, separated by commas
RECURSIVE parse_cmd_address(_, _, _)
parse_cmd_address(s, p, e) ==
  LET c == skipwhite(s, p)
      given == ascii_isdigit(CharAt(s, c))
      after == IF given THEN skipwhite(s, skipdigits(s, c)) ELSE c
      e1 == [e EXCEPT !.line1 = e.line2,
                      !.line2 = IF given THEN getdigits(s, c, 0)
                                ELSE get_cmd_default_range(e),
                      !.addr_count = @ + 1]
  IN  IF CharAt(s, after) = "," THEN parse_cmd_address(s, after + 1, e1)
      ELSE [pos |-> after,
            ea |-> IF e1.addr_count = 1
                   THEN [e1 EXCEPT !.line1 = e1.line2,
                                   !.addr_count = IF given THEN 1 ELSE 0]
                   ELSE e1]

\* external (ex_docmd.c): del_trailing_spaces: white space at the end goes,
\* unless a backslash is before it
RECURSIVE del_trailing_spaces(_)
del_trailing_spaces(arg) ==
  IF Len(arg) > 1 /\ ascii_iswhite(arg[Len(arg)]) /\ arg[Len(arg) - 1] /= "\\"
  THEN del_trailing_spaces(SubSeq(arg, 1, Len(arg) - 1))
  ELSE arg

\* external (ex_docmd.c): separate_nextcmd: the argument ends at the first
\* bar or double quote; a backslash before one is dropped and keeps it
RECURSIVE SeparateAt(_, _)
SeparateAt(arg, i) ==
  IF i > Len(arg) THEN [arg |-> arg, nextcmd |-> NIL]
  ELSE IF arg[i] \in {"|", "\"", "\n"}
  THEN IF i > 1 /\ arg[i - 1] = "\\"
       THEN SeparateAt(SubSeq(arg, 1, i - 2) \o SubSeq(arg, i, Len(arg)), i)
       ELSE [arg |-> SubSeq(arg, 1, i - 1),
             nextcmd |-> IF CharAt(arg, skipwhite(arg, i)) \in {"|", "\n"}
                         THEN STRING_OBJ(SubSeq(arg, skipwhite(arg, i) + 1, Len(arg)))
                         ELSE NIL]
  ELSE SeparateAt(arg, i + 1)
separate_nextcmd(arg) ==
  LET r == SeparateAt(arg, 1)
  IN  [arg |-> del_trailing_spaces(r.arg), nextcmd |-> r.nextcmd]

\* external (ex_docmd.c): parse_register: the first character of the
\* argument is the register when it names one
parse_register(e, arg) ==
  IF /\ "EX_REGSTR" \in e.argt
     /\ CharAt(arg, 1) /= "NUL"
     /\ (~IS_USER_CMDIDX(e.cmdidx) \/ arg[1] /= "=")
     /\ ~("EX_COUNT" \in e.argt /\ ascii_isdigit(arg[1]))
     /\ valid_yank_reg(arg[1], ~IS_USER_CMDIDX(e.cmdidx))
  THEN [ea |-> [e EXCEPT !.regname = arg[1]],
        arg |-> SubSeq(arg, skipwhite(arg, 2), Len(arg))]
  ELSE [ea |-> e, arg |-> arg]

\* external (ex_docmd.c): parse_count: digits at the start of the argument
\* are the count
parse_count(e, arg) ==
  LET n == getdigits(arg, 1, 0)
  IN  IF "EX_COUNT" \in e.argt /\ ascii_isdigit(CharAt(arg, 1))
      THEN IF n <= 0 /\ "EX_ZEROR" \notin e.argt
           THEN [ok |-> FALSE, ea |-> e, arg |-> arg]
           ELSE [ok |-> TRUE, ea |-> set_cmd_count(e, n, FALSE),
                 arg |-> SubSeq(arg, skipwhite(arg, skipdigits(arg, 1)), Len(arg))]
      ELSE [ok |-> TRUE, ea |-> e, arg |-> arg]

\* external (ex_docmd.c): parse_cmdline, step by step; st is what the call
\* holds after a step: whether it still goes on, the message, the exarg_T,
\* the CmdParseInfo, the position reached in the line and the argument text
ParseFail(st, msg) == [st EXCEPT !.ok = FALSE, !.errormsg = msg]

\* the modifiers
ParseModifiers(m) ==
  [ok |-> m.ok, errormsg |-> m.errormsg, pos |-> m.pos,
   ea |-> [ClearedEa EXCEPT !.line1 = 1, !.line2 = 1],
   cmdinfo |-> [ClearedCmdinfo EXCEPT !.cmdmod = m.cmod],
   arg |-> <<>>]

\* the command, looked for behind the range
NamePos(s, r) == IF CharAt(s, r) = "*" THEN skipwhite(s, r + 1) ELSE r
ParseCommandFound(st, f) ==
  IF f.cmdidx = "CMD_SIZE"
  THEN [st EXCEPT !.ea.addr_type = "ADDR_LINES", !.ea.arg = f.p]
  ELSE [st EXCEPT !.ea.cmdidx = f.cmdidx, !.ea.useridx = f.useridx,
                  !.ea.argt = f.uc.uc_argt, !.ea.addr_type = f.uc.uc_addr_type,
                  !.ea.arg = f.p]
ParseCommand(s, st) ==
  IF ~st.ok THEN st
  ELSE ParseCommandFound(st, find_ex_command(s, NamePos(s, skip_range(s, st.pos))))

\* the range, and the checks that a command follows and that it exists
ParseAddressRead(s, st, addr) ==
  IF CharAt(s, skip_colon_white(s, addr.pos)) \in {"NUL", "\""}
  THEN ParseFail(st, "")
  ELSE IF st.ea.cmdidx = "CMD_SIZE"
  THEN ParseFail(st, "E492: Not an editor command")
  ELSE [st EXCEPT !.ea = addr.ea, !.ea.cmd = skip_colon_white(s, addr.pos)]
ParseAddress(s, st) ==
  IF ~st.ok THEN st ELSE ParseAddressRead(s, st, parse_cmd_address(s, st.pos, st.ea))

\* the bang behind the name and the argument behind it (ea.arg is the end
\* of the name until here)
ParseArg(s, st) ==
  IF ~st.ok THEN st
  ELSE IF CharAt(s, st.ea.arg) = "!"
  THEN [st EXCEPT !.ea.forceit = TRUE, !.ea.arg = skipwhite(s, st.ea.arg + 1),
                  !.arg = SubSeq(s, skipwhite(s, st.ea.arg + 1), Len(s))]
  ELSE [st EXCEPT !.ea.forceit = FALSE, !.ea.arg = skipwhite(s, st.ea.arg),
                  !.arg = SubSeq(s, skipwhite(s, st.ea.arg), Len(s))]

\* the next command, for a command that may be followed by one
ParseNextcmdRead(st, sep) ==
  [st EXCEPT !.arg = sep.arg,
             !.ea.nextcmd = IF sep.nextcmd = NIL THEN <<>> ELSE sep.nextcmd.v]
ParseNextcmd(st) ==
  IF ~st.ok \/ "EX_TRLBAR" \notin st.ea.argt THEN st
  ELSE ParseNextcmdRead(st, separate_nextcmd(st.arg))

\* a bang or a range the command does not take; the default of range=%
ParseChecks(st) ==
  IF ~st.ok THEN st
  ELSE IF st.ea.forceit /\ "EX_BANG" \notin st.ea.argt
  THEN ParseFail(st, "E477: No ! allowed")
  ELSE IF "EX_RANGE" \notin st.ea.argt /\ st.ea.addr_count > 0
  THEN ParseFail(st, "E481: No range allowed")
  ELSE IF "EX_DFLALL" \in st.ea.argt /\ st.ea.addr_count = 0
  THEN [st EXCEPT !.ea = set_cmd_dflall_range(st.ea)]
  ELSE st

\* the register and the count at the start of the argument
ParseRegisterRead(st, reg) == [st EXCEPT !.ea = reg.ea, !.arg = reg.arg]
ParseRegister(st) ==
  IF ~st.ok THEN st ELSE ParseRegisterRead(st, parse_register(st.ea, st.arg))
ParseCountRead(st, count) ==
  IF ~count.ok THEN ParseFail(st, "E939: Positive count required")
  ELSE [st EXCEPT !.ea = count.ea, !.arg = count.arg]
ParseCount(st) ==
  IF ~st.ok THEN st ELSE ParseCountRead(st, parse_count(st.ea, st.arg))

\* the magic flags
ParseMagic(st) ==
  IF ~st.ok THEN st
  ELSE [st EXCEPT !.cmdinfo.magic = [file |-> "EX_XFILE" \in st.ea.argt,
                                     bar |-> "EX_TRLBAR" \in st.ea.argt]]

parse_cmdline(s) ==
  ParseMagic(ParseCount(ParseRegister(ParseChecks(ParseNextcmd(ParseArg(s,
    ParseAddress(s, ParseCommand(s,
      ParseModifiers(parse_command_modifiers(s, 1, ClearedCmdmod))))))))))

\* external (usercmd.c): uc_split_args_iter on the argument text: positions
\* count from 0 as in the code; buf is the argument copied so far
RECURSIVE SplitCopy(_, _, _)
SplitCopy(arg, pos, buf) ==
  IF pos < Len(arg) - 1
  THEN IF arg[pos + 1] = "\\" /\ (arg[pos + 2] = "\\" \/ ascii_iswhite(arg[pos + 2]))
       THEN SplitCopy(arg, pos + 2, Append(buf, arg[pos + 2]))
       ELSE IF ascii_iswhite(arg[pos + 2])
       THEN [done |-> FALSE, end |-> pos + 1, buf |-> Append(buf, arg[pos + 1])]
       ELSE SplitCopy(arg, pos + 1, Append(buf, arg[pos + 1]))
  ELSE [done |-> TRUE, end |-> pos,
        buf |-> IF pos < Len(arg) /\ ~ascii_iswhite(arg[pos + 1])
                THEN Append(buf, arg[pos + 1]) ELSE buf]
RECURSIVE SkipWhiteFrom(_, _)
SkipWhiteFrom(arg, pos) ==
  IF pos < Len(arg) /\ ascii_iswhite(arg[pos + 1]) THEN SkipWhiteFrom(arg, pos + 1) ELSE pos
uc_split_args_iter(arg, end) ==
  IF Len(arg) = 0 THEN [done |-> TRUE, end |-> end, buf |-> <<>>]
  ELSE SplitCopy(arg, SkipWhiteFrom(arg, end), <<>>)

\* a loop that adds what the splitter copied whether it is empty or not
RECURSIVE SplitArgsKeepEmpty(_, _)
SplitArgsKeepEmpty(arg, end) ==
  LET it == uc_split_args_iter(arg, end)
  IN  IF it.done THEN <<STRING_OBJ(it.buf)>>
      ELSE <<STRING_OBJ(it.buf)>> \o SplitArgsKeepEmpty(arg, it.end)

\* command.c 137-142: the calls of the splitter the loop makes from an offset
RECURSIVE SplitCalls(_, _)
SplitCalls(arg, end) ==
  IF uc_split_args_iter(arg, end).done THEN 1
  ELSE 1 + SplitCalls(arg, uc_split_args_iter(arg, end).end)

\* command.c 128-146: the arguments of the parsed line
RECURSIVE SplitArgs(_, _)
SplitArgs(arg, end) ==
  LET it == uc_split_args_iter(arg, end)
      found == IF Len(it.buf) > 0 THEN <<STRING_OBJ(it.buf)>> ELSE <<>>
  IN  IF it.done THEN found ELSE found \o SplitArgs(arg, it.end)
ParsedArgs(e, arg) ==
  IF "EX_NOSPC" \in e.argt
  THEN IF CharAt(arg, 1) /= "NUL" THEN <<STRING_OBJ(arg)>> ELSE <<>>
  ELSE SplitArgs(arg, 0)

\* command.c 161-185: range, count and reg of the result
ParsedRange(e) ==
  IF "EX_RANGE" \notin e.argt THEN NIL
  ELSE ARRAY_OBJ(IF e.addr_count > 1
                 THEN <<INTEGER_OBJ(Small(e.line1)), INTEGER_OBJ(Small(e.line2))>>
                 ELSE IF e.addr_count > 0 THEN <<INTEGER_OBJ(Small(e.line2))>>
                 ELSE <<>>)
ParsedCount(e, uc) ==
  IF "EX_COUNT" \notin e.argt THEN NIL
  ELSE IF e.addr_count > 0 THEN INTEGER_OBJ(Small(e.line2))
  ELSE INTEGER_OBJ(uc.uc_def)
ParsedReg(e) ==
  IF "EX_REGSTR" \notin e.argt THEN NIL
  ELSE STRING_OBJ(IF e.regname = "NUL" THEN <<>> ELSE <<e.regname>>)

\* command.c 190-207: nargs of the result
ParsedNargs(e) ==
  IF "EX_EXTRA" \notin e.argt THEN <<"0">>
  ELSE IF "EX_NOSPC" \in e.argt
  THEN IF "EX_NEEDARG" \in e.argt THEN <<"1">> ELSE <<"?">>
  ELSE IF "EX_NEEDARG" \in e.argt THEN <<"+">>
  ELSE <<"*">>

\* command.c 209-239: addr of the result
ParsedAddr(e) ==
  CASE e.addr_type = "ADDR_LINES" -> <<"l", "i", "n", "e">>
    [] e.addr_type = "ADDR_ARGUMENTS" -> <<"a", "r", "g">>
    [] e.addr_type = "ADDR_BUFFERS" -> <<"b", "u", "f">>
    [] e.addr_type = "ADDR_LOADED_BUFFERS" -> <<"l", "o", "a", "d">>
    [] e.addr_type = "ADDR_WINDOWS" -> <<"w", "i", "n">>
    [] e.addr_type = "ADDR_TABS" -> <<"t", "a", "b">>
    [] e.addr_type = "ADDR_QUICKFIX" -> <<"q", "f">>
    [] e.addr_type = "ADDR_NONE" -> <<"n", "o", "n", "e">>
    [] OTHER -> <<"?">>

\* command.c 242-284: mods of the result
ParsedSplit(cmod) ==
  IF "WSP_BOT" \in cmod.cmod_split THEN W_botright
  ELSE IF "WSP_TOP" \in cmod.cmod_split THEN W_topleft
  ELSE IF "WSP_BELOW" \in cmod.cmod_split THEN W_belowright
  ELSE IF "WSP_ABOVE" \in cmod.cmod_split THEN W_aboveleft
  ELSE <<>>
ParsedMods(cmod) ==
  [k \in DOMAIN ModsNone |->
     CASE k = "filter" ->
            DICTIONARY_OBJ([pattern |-> IF cmod.cmod_filter_pat = NIL
                                        THEN STRING_OBJ(<<>>) ELSE cmod.cmod_filter_pat,
                            force |-> BOOLEAN_OBJ(cmod.cmod_filter_force)])
       [] k = "tab" -> INTEGER_OBJ(Small(cmod.cmod_tab - 1))
       [] k = "verbose" -> INTEGER_OBJ(Small(cmod.cmod_verbose - 1))
       [] k = "vertical" -> BOOLEAN_OBJ("WSP_VERT" \in cmod.cmod_split)
       [] k = "horizontal" -> BOOLEAN_OBJ("WSP_HOR" \in cmod.cmod_split)
       [] k = "split" -> STRING_OBJ(ParsedSplit(cmod))
       [] OTHER ->
            BOOLEAN_OBJ(\E j \in 1..Len(CmodFlagKeys) :
                          CmodFlagKeys[j][1] = k /\ CmodFlagKeys[j][2] \in cmod.cmod_flags)]

\* a Dict(cmd) with no key set
CmdNone ==
  [cmd |-> NIL, range |-> NIL, count |-> NIL, reg |-> NIL, bang |-> NIL,
   args |-> NIL, magic |-> NIL, mods |-> NIL, nargs |-> NIL, addr |-> NIL,
   nextcmd |-> NIL]

\* command.c 148-153: the user command the line names
ParsedUcmd(e) ==
  IF e.cmdidx = "CMD_USER" THEN ucmds[e.useridx] ELSE b_ucmds[curbuf][e.useridx]

\* command.c 155-289: the dictionary of a parsed line
ParsedDict(r, uc) ==
  DICTIONARY_OBJ(
    [cmd |-> STRING_OBJ(uc.uc_name),
     range |-> ParsedRange(r.ea),
     count |-> ParsedCount(r.ea, uc),
     reg |-> ParsedReg(r.ea),
     bang |-> BOOLEAN_OBJ(r.ea.forceit),
     args |-> ARRAY_OBJ(ParsedArgs(r.ea, r.arg)),
     nargs |-> STRING_OBJ(ParsedNargs(r.ea)),
     addr |-> STRING_OBJ(ParsedAddr(r.ea)),
     nextcmd |-> STRING_OBJ(r.ea.nextcmd),
     mods |-> DICTIONARY_OBJ(ParsedMods(r.cmdinfo.cmdmod)),
     magic |-> DICTIONARY_OBJ([file |-> BOOLEAN_OBJ(r.cmdinfo.magic.file),
                               bar |-> BOOLEAN_OBJ(r.cmdinfo.magic.bar)])])

\* command.c 97-120, 292-294: the error set and what is returned
ParseResult(opts_size, r) ==
  IF opts_size > 0
  THEN [err |-> ValidationError("opts dict isn't empty"), dict |-> NIL, parsed |-> r]
  ELSE IF ~r.ok
  THEN [err |-> ExceptionError(IF r.errormsg /= "" THEN r.errormsg
                               ELSE "Error while parsing command line"),
        dict |-> NIL, parsed |-> r]
  ELSE [err |-> NoError, dict |-> ParsedDict(r, ParsedUcmd(r.ea)), parsed |-> r]

\* command.c 97-295: nvim_parse_cmd
nvim_parse_cmd(str, opts_size) == ParseResult(opts_size, parse_cmdline(str))

----------------------------------------------------------------------------
(* The calls of nvim_cmd and nvim_parse_cmd, on one user command.          *)

CmdName == <<"C", "m">>

\* the options the command "Cm" is defined with
Contract(nargs, range, count, addr, bang, bar, register, complete) ==
  [OptsNone EXCEPT !.nargs = nargs, !.range = range, !.count = count,
                   !.addr = addr, !.bang = bang, !.bar = bar,
                   !.register = register, !.complete = complete]
Yes == BOOLEAN_OBJ(TRUE)
Star == STRING_OBJ(<<"*">>)
CmdContracts ==
  {Contract(NIL, NIL, NIL, NIL, Yes, NIL, NIL, NIL),
   Contract(INTEGER_OBJ(Small(1)), NIL, NIL, NIL, Yes, NIL, NIL, NIL),
   Contract(STRING_OBJ(<<"?">>), NIL, NIL, NIL, Yes, NIL, NIL, NIL),
   Contract(STRING_OBJ(<<"+">>), NIL, NIL, NIL, Yes, NIL, NIL, NIL),
   Contract(Star, NIL, NIL, NIL, Yes, NIL, NIL, NIL),
   Contract(Star, Yes, NIL, NIL, NIL, NIL, NIL, NIL),
   Contract(Star, STRING_OBJ(<<"%">>), NIL, NIL, NIL, NIL, NIL, NIL),
   Contract(Star, NIL, Yes, NIL, NIL, NIL, NIL, NIL),
   Contract(Star, NIL, INTEGER_OBJ(Small(2)), STRING_OBJ(<<"l", "i", "n", "e", "s">>),
            NIL, NIL, NIL, NIL),
   Contract(Star, Yes, NIL, STRING_OBJ(<<"b", "u", "f", "f", "e", "r", "s">>),
            NIL, NIL, NIL, NIL),
   Contract(Star, NIL, NIL, NIL, Yes, NIL, Yes, NIL),
   Contract(Star, NIL, Yes, NIL, NIL, NIL, Yes, NIL),
   Contract(NIL, Yes, NIL, NIL, NIL, NIL, Yes, NIL),
   Contract(STRING_OBJ(<<"?">>), NIL, NIL, NIL, NIL, NIL, Yes, NIL),
   Contract(INTEGER_OBJ(Small(1)), Yes, NIL, NIL, NIL, NIL, NIL, NIL),
   Contract(STRING_OBJ(<<"+">>), NIL, Yes, NIL, NIL, NIL, NIL, NIL),
   Contract(Star, NIL, NIL, NIL, NIL, Yes, NIL, NIL),
   Contract(INTEGER_OBJ(Small(1)), NIL, NIL, NIL, NIL, NIL, NIL,
            STRING_OBJ(<<"f", "i", "l", "e">>))}

\* the descriptors nvim_cmd is called with
Cmd(name, args, range, count, reg, bang, mods, magic) ==
  [CmdNone EXCEPT !.cmd = name, !.args = args, !.range = range, !.count = count,
                  !.reg = reg, !.bang = bang, !.mods = mods, !.magic = magic]
Cm == STRING_OBJ(CmdName)
Str(t) == STRING_OBJ(t)
IntObj(n) == INTEGER_OBJ(Small(n))
Wide(hi, lo) == INTEGER_OBJ(I64(hi, lo))
Strs(ts) == ARRAY_OBJ([i \in 1..Len(ts) |-> STRING_OBJ(ts[i])])
Ints(ns) == ARRAY_OBJ([i \in 1..Len(ns) |-> IntObj(ns[i])])
Mods(m) == DICTIONARY_OBJ(m)

ArgsInputs ==
  {NIL, Strs(<<>>), Strs(<< <<"a">> >>), Strs(<< <<"a">>, <<"b">> >>),
   Strs(<< <<"a", " ", "b">> >>), Strs(<< <<" ">> >>), Strs(<< <<"7">> >>),
   ARRAY_OBJ(<<IntObj(5), BOOLEAN_OBJ(TRUE)>>), ARRAY_OBJ(<<ARRAY_OBJ(<<>>)>>),
   Strs(<< <<"a", "\\", " ", "b">>, <<"c">> >>), Str(<<"a">>)}
RangeInputs ==
  {NIL, Ints(<<>>), Ints(<<2>>), Ints(<<1, 3>>), Ints(<<3, 1>>), Ints(<<9>>),
   Ints(<<1, 2, 3>>), Ints(<<-1>>), ARRAY_OBJ(<<Wide(1, 1)>>), Str(<<"2">>)}
CountInputs == {NIL, IntObj(0), IntObj(2), IntObj(-1), Wide(1, 2), Str(<<"2">>)}
RegInputs == {Str(<<"=">>), Str(<<"a", "b">>), Str(<<>>), Str(<<"!">>), IntObj(1)}

ModsInputs ==
  {ModsNone,
   [ModsNone EXCEPT !.silent = Yes],
   [ModsNone EXCEPT !.emsg_silent = Yes],
   [ModsNone EXCEPT !.silent = Yes, !.emsg_silent = Yes],
   [ModsNone EXCEPT !.silent = BOOLEAN_OBJ(FALSE), !.emsg_silent = Yes],
   [ModsNone EXCEPT !.unsilent = Yes],
   [ModsNone EXCEPT !.emsg_silent = Yes, !.unsilent = Yes],
   [ModsNone EXCEPT !.silent = Str(<<"x">>)],
   [ModsNone EXCEPT !.sandbox = Yes],
   [ModsNone EXCEPT !.tab = IntObj(-1)],
   [ModsNone EXCEPT !.tab = IntObj(-7)],
   [ModsNone EXCEPT !.tab = IntObj(0)],
   [ModsNone EXCEPT !.tab = IntObj(1)],
   [ModsNone EXCEPT !.tab = IntObj(3)],
   [ModsNone EXCEPT !.tab = Wide(-1, 0)],
   [ModsNone EXCEPT !.tab = Wide(1, -1)],
   [ModsNone EXCEPT !.tab = Str(<<"1">>)],
   [ModsNone EXCEPT !.verbose = IntObj(-1)],
   [ModsNone EXCEPT !.verbose = IntObj(0)],
   [ModsNone EXCEPT !.verbose = IntObj(2)],
   [ModsNone EXCEPT !.verbose = Wide(-1, 1)],
   [ModsNone EXCEPT !.verbose = Yes],
   [ModsNone EXCEPT !.tab = IntObj(1), !.verbose = IntObj(1), !.emsg_silent = Yes],
   [ModsNone EXCEPT !.vertical = Yes],
   [ModsNone EXCEPT !.horizontal = Yes, !.split = Str(W_topleft)],
   [ModsNone EXCEPT !.split = Str(<<>>)],
   [ModsNone EXCEPT !.split = Str(W_leftabove)],
   [ModsNone EXCEPT !.split = Str(W_rightbelow)],
   [ModsNone EXCEPT !.split = Str(W_botright), !.vertical = Yes],
   [ModsNone EXCEPT !.split = Str(<<"u", "p">>)],
   [ModsNone EXCEPT !.split = IntObj(1)],
   [ModsNone EXCEPT !.hide = Yes, !.keepalt = Yes, !.noswapfile = Yes],
   [ModsNone EXCEPT !.noautocmd = Yes, !.browse = Yes, !.confirm = Yes,
                    !.keepjumps = Yes, !.keepmarks = Yes, !.keeppatterns = Yes,
                    !.lockmarks = Yes],
   [ModsNone EXCEPT !.filter = DICTIONARY_OBJ([FilterNone EXCEPT !.pattern = Str(<<"x">>)])],
   [ModsNone EXCEPT !.filter = DICTIONARY_OBJ([pattern |-> Str(<<>>), force |-> Yes])],
   [ModsNone EXCEPT !.filter = DICTIONARY_OBJ([FilterNone EXCEPT !.pattern = Str(<<>>)])],
   [ModsNone EXCEPT !.filter = DICTIONARY_OBJ([FilterNone EXCEPT !.pattern = IntObj(1)])],
   [ModsNone EXCEPT !.filter = Str(<<"x">>)],
   [ModsNone EXCEPT !.filter = DICTIONARY_OBJ([pattern |-> Str(<<"x">>), force |-> Yes])],
   [ModsNone EXCEPT !.filter = DICTIONARY_OBJ([FilterNone EXCEPT !.force = Yes])],
   [ModsNone EXCEPT !.filter = DICTIONARY_OBJ([FilterNone EXCEPT !.pattern = Str(<<"x">>)]),
                    !.tab = Str(<<"1">>)],
   [ModsNone EXCEPT !.filter = DICTIONARY_OBJ([FilterNone EXCEPT !.pattern = Str(<<"x">>)]),
                    !.sandbox = Yes]}

MagicInputs ==
  {DICTIONARY_OBJ([file |-> Yes, bar |-> NIL]),
   DICTIONARY_OBJ([file |-> BOOLEAN_OBJ(FALSE), bar |-> Yes]),
   DICTIONARY_OBJ([file |-> Str(<<"x">>), bar |-> NIL]),
   Str(<<"x">>)}

One == Strs(<< <<"a">> >>)

\* descriptors with several fields invalid at once: the fields up to one of
\* them are valid (or left out), that one and all later ones are not
SeveralInvalid ==
  {Cmd(n, a, r, c, reg, b, mo, ma) :
     n \in {Cm}, a \in {Strs(<<>>), Str(<<"a">>)}, r \in {Str(<<"2">>)},
     c \in {Str(<<"2">>)}, reg \in {IntObj(1)}, b \in {Str(<<"x">>)},
     mo \in {Str(<<"x">>)}, ma \in {Str(<<"x">>)}}
  \cup {Cmd(Cm, NIL, r, c, reg, b, Str(<<"x">>), Str(<<"x">>)) :
          r \in {NIL, Ints(<<2>>)}, c \in {NIL, IntObj(2), Str(<<"2">>)},
          reg \in {NIL, Str(<<"a">>), IntObj(1)}, b \in {NIL, Yes, Str(<<"x">>)}}
  \cup {Cmd(Cm, NIL, NIL, NIL, NIL, NIL, mo, ma) :
          mo \in {Str(<<"x">>), Mods([ModsNone EXCEPT !.tab = Str(<<"1">>)])},
          ma \in {Str(<<"x">>), DICTIONARY_OBJ([file |-> Str(<<"x">>), bar |-> NIL])}}
  \cup {Cmd(n, Str(<<"a">>), NIL, Str(<<"2">>), NIL, NIL, NIL, NIL) :
          n \in {Str(<<>>), Str(<<"Z", "z">>)}}

CmdInputs ==
  {Cmd(Cm, a, NIL, NIL, reg, bang, NIL, NIL)
          : a \in ArgsInputs, reg \in {NIL, Str(<<"a">>)}, bang \in {NIL, Yes}}
  \cup {Cmd(Cm, NIL, NIL, NIL, reg, NIL, NIL, NIL) : reg \in RegInputs}
  \cup {Cmd(Cm, NIL, r, c, NIL, NIL, NIL, NIL) : r \in RangeInputs, c \in CountInputs}
  \cup {Cmd(Cm, One, r, c, NIL, NIL, NIL, NIL)
          : r \in {NIL, Ints(<<2>>)}, c \in {NIL, IntObj(2)}}
  \cup {Cmd(Cm, a, NIL, NIL, NIL, NIL, Mods(m), NIL)
          : a \in {NIL, One}, m \in ModsInputs}
  \cup {Cmd(Cm, NIL, Ints(<<2>>), NIL, NIL, NIL, Mods(m), NIL)
          : m \in {[ModsNone EXCEPT !.emsg_silent = Yes], [ModsNone EXCEPT !.tab = IntObj(1)]}}
  \cup {Cmd(Cm, One, NIL, NIL, NIL, NIL, m, NIL) : m \in {Str(<<"x">>)}}
  \cup {Cmd(Cm, One, NIL, NIL, NIL, NIL, NIL, m) : m \in MagicInputs}
  \cup {Cmd(n, One, NIL, NIL, NIL, NIL, NIL, NIL)
          : n \in {NIL, Str(<<>>), Str(<<"Z", "z">>), Str(<<"C">>), IntObj(1)}}
  \cup {Cmd(Cm, NIL, NIL, NIL, NIL, Str(<<"x">>), NIL, NIL)}
  \cup SeveralInvalid

\* the 'output' option nvim_cmd is called with
OutputInputs == {NIL, Yes, Str(<<"x">>)}

\* the lines nvim_parse_cmd is called with
ParseInputs ==
  {<<"C", "m">>,
   <<"C", "m", " ", "a">>,
   <<"C", "m", " ", "a", " ", "b">>,
   <<"C", "m", " ", " ", "a", " ", " ", " ", "b">>,
   <<"C", "m", "!">>,
   <<"C", "m", "!", " ", "a">>,
   <<"2", "C", "m">>,
   <<"1", ",", "3", "C", "m">>,
   <<"3", ",", "1", "C", "m">>,
   <<"C", "m", " ", "2">>,
   <<"C", "m", " ", "2", " ", "a">>,
   <<"C", "m", " ", "a", " ", "2">>,
   <<"s", "i", "l", "e", "n", "t", " ", "C", "m">>,
   <<"s", "i", "l", "e", "n", "t", "!", " ", "C", "m">>,
   <<"s", "i", "l", " ", "C", "m", " ", "a">>,
   <<"s", "i", "l", "e", "n", "t", " ", "!", " ", "C", "m">>,
   <<"u", "n", "s", "i", "l", "e", "n", "t", " ", "C", "m">>,
   <<"s", "i", "l", "e", "n", "t", " ", "u", "n", "s", "i", "l", "e", "n", "t", " ", "C", "m">>,
   <<"t", "a", "b", " ", "C", "m">>,
   <<"0", "t", "a", "b", " ", "C", "m">>,
   <<"5", "t", "a", "b", " ", "C", "m">>,
   <<"v", "e", "r", "b", "o", "s", "e", " ", "C", "m">>,
   <<"3", "v", "e", "r", "b", "o", "s", "e", " ", "C", "m">>,
   <<"0", "v", "e", "r", "b", "o", "s", "e", " ", "C", "m">>,
   <<"v", "e", "r", "t", "i", "c", "a", "l", " ", "b", "o", "t", "r", "i", "g", "h", "t", " ", "C", "m">>,
   <<"h", "o", "r", " ", "C", "m">>,
   <<"h", "i", "d", "e", " ", "C", "m">>,
   <<"k", "e", "e", "p", "a", "l", "t", " ", "k", "e", "e", "p", "j", "u", "m", "p", "s", " ", "C", "m", " ", "a">>,
   <<"s", "a", "n", "d", "b", "o", "x", " ", "C", "m">>,
   <<"n", "o", "a", "u", "t", "o", "c", "m", "d", " ", "l", "o", "c", "k", "m", "a", "r", "k", "s", " ", "C", "m">>,
   <<"Z", "z">>,
   <<>>,
   <<" ", " ">>,
   <<"s", "i", "l", "e", "n", "t", " ">>,
   <<"C", "m", " ", "a", "|", "C", "m", " ", "b">>,
   <<"C", "m", " ", "a", "\\", " ", "b">>,
   <<"C", "m", " ", "a", "\\", "\\", "b">>,
   <<"C", "m", " ", "=">>,
   <<"C", "m", " ", "x", " ">>,
   <<"C", " ", "a">>,
   <<"\"", "x">>,
   <<":", "C", "m", " ", "a">>,
   <<"C", "m", " ", "a", "b", " ", "c">>,
   <<"C", "m", "\t", "a">>,
   <<"C", "m", " ", "a", "\\">>,
   <<"C", "m", " ", "\\", " ", "b">>,
   <<"C", "m", " ", "a", "\t", " ", "b", "c", " ", " ">>}

CmdCall(cmd, output, origin) ==
  [op |-> "nvim_cmd", cmd |-> cmd, opts |-> [output |-> output], str |-> <<>>,
   opts_size |-> 0, origin |-> origin]
ParseCall(str, opts_size, origin) ==
  [op |-> "nvim_parse_cmd", cmd |-> CmdNone, opts |-> [output |-> NIL], str |-> str,
   opts_size |-> opts_size, origin |-> origin]
NoOrigin == [from |-> "caller"]

\* the calls the callers make
CallInputs ==
  {CmdCall(d, NIL, NoOrigin) : d \in CmdInputs}
  \cup {CmdCall(Cmd(Cm, One, NIL, NIL, NIL, NIL, NIL, NIL), o, NoOrigin) : o \in OutputInputs}
  \cup {ParseCall(l, 0, NoOrigin) : l \in ParseInputs}
  \cup {ParseCall(CmdName, 1, NoOrigin)}
  \cup {CmdCall(Cmd(n, NIL, NIL, NIL, NIL, Str(<<"x">>), NIL, NIL), Str(<<"x">>), NoOrigin) :
          n \in {Cm, Str(<<>>), Str(<<"Z", "z">>)}}

\* command.c 674-677: the line of a descriptor that passed the checks
CmdBuilt(v, b) ==
  [err |-> NoError, step |-> "", built |-> TRUE, ea |-> b.ea,
   cmdinfo |-> v.cmdinfo, cmdline |-> b.cmdline, args |-> v.args]
CmdBuild(cmd, v) ==
  IF ERROR_SET(v.err)
  THEN [err |-> v.err, step |-> v.step, built |-> FALSE, ea |-> v.ea,
        cmdinfo |-> v.cmdinfo, cmdline |-> NoCmdline, args |-> v.args]
  ELSE CmdBuilt(v, build_cmdline_str(v.ea, v.cmdinfo, cmd.cmd.v, v.args))

\* command.c 320-677: nvim_cmd up to the call of execute_cmd
nvim_cmd(cmd, opts) == CmdBuild(cmd, Validate(cmd, opts))

\* command.c 368, 436, 592-595, 677: what one call of nvim_cmd has allocated
\* when it reaches the label "end"
Acquired(r) ==
  (IF r.step = "output" \/ r.err = ValidationError("'cmd' must be a non-empty String")
   THEN {} ELSE {"cmdname"})
  \cup (IF Len(r.args) > 0 THEN {"args"} ELSE {})
  \cup (IF r.built THEN {"cmdline", "ea.args", "ea.arglens"} ELSE {})
  \cup (IF r.cmdinfo.cmdmod.cmod_filter_pat /= NIL THEN {"cmod_filter_pat"} ELSE {})
  \cup (IF r.cmdinfo.cmdmod.cmod_filter_regprog THEN {"cmod_filter_regprog"} ELSE {})

\* command.c 731-736: what the label "end" frees
FreedAtEnd == {"args", "cmdline", "cmdname", "ea.args", "ea.arglens"}

\* external (ex_docmd.c): execute_cmd ends with undo_cmdmod, which frees the
\* filter pattern and its program; it runs only when the line was built
FreedByExecute(r) ==
  IF r.built THEN {"cmod_filter_pat", "cmod_filter_regprog"} ELSE {}

\* what is still allocated when nvim_cmd returns
Held(r) == Acquired(r) \ (FreedAtEnd \cup FreedByExecute(r))

\* command.c 320-743: nvim_cmd: the descriptor is validated, the line is
\* built and handed to execute_cmd, which runs the command and may fail
NvimCmdReturn(r) ==
  /\ pc = "call"
  /\ call.op = "nvim_cmd"
  /\ pc' = "return"
  /\ UNCHANGED <<ucmds, b_ucmds, call>>
  /\ err' \in (IF r.built THEN {NoError, ExceptionError("execute_cmd")} ELSE {r.err})
  /\ ea' = r.ea
  /\ cmdinfo' = r.cmdinfo
  /\ cmdline' = r.cmdline
  /\ result' = [kind |-> "cmd", built |-> r.built, step |-> r.step,
                held |-> Held(r)]
NvimCmd == NvimCmdReturn(nvim_cmd(call.cmd, call.opts))

\* command.c 97-295: nvim_parse_cmd
NvimParseCmdReturn(r) ==
  /\ pc = "call"
  /\ call.op = "nvim_parse_cmd"
  /\ pc' = "return"
  /\ UNCHANGED <<ucmds, b_ucmds, call>>
  /\ err' = r.err
  /\ ea' = r.parsed.ea
  /\ cmdinfo' = r.parsed.cmdinfo
  /\ cmdline' = NoCmdline
  /\ result' = [kind |-> "parse", dict |-> r.dict]
NvimParseCmd == NvimParseCmdReturn(nvim_parse_cmd(call.str, call.opts_size))

\* a caller gives the line nvim_cmd built to nvim_parse_cmd
ParseBuilt ==
  /\ pc = "return"
  /\ call.op = "nvim_cmd"
  /\ result.built
  /\ pc' = "call"
  /\ call' = ParseCall(cmdline, 0, [from |-> "nvim_cmd", cmd |-> call.cmd])
  /\ UNCHANGED <<ucmds, b_ucmds, err, ea, cmdinfo, cmdline, result>>

\* a caller gives the dictionary nvim_parse_cmd returned to nvim_cmd, as it is
CmdParsed ==
  /\ pc = "return"
  /\ call.op = "nvim_parse_cmd"
  /\ ~ERROR_SET(err)
  /\ pc' = "call"
  /\ call' = CmdCall(result.dict.v, NIL, [from |-> "nvim_parse_cmd", str |-> call.str])
  /\ UNCHANGED <<ucmds, b_ucmds, err, ea, cmdinfo, cmdline, result>>

\* the validated state of a call, read as a descriptor: the range has as many
\* elements as addresses were counted and is not given when none was, the
\* register is there when one is
\* held, tab and verbose are what is stored less one; the count is part of
\* the range of the state and has no key of its own
ValidatedDescriptor(d, e, info) ==
  [d EXCEPT !.range = IF e.addr_count = 0 THEN NIL ELSE ParsedRange(e),
            !.count = NIL,
            !.reg = IF e.regname = "NUL" THEN NIL ELSE STRING_OBJ(<<e.regname>>),
            !.bang = BOOLEAN_OBJ(e.forceit),
            !.magic = DICTIONARY_OBJ([file |-> BOOLEAN_OBJ(info.magic.file),
                                      bar |-> BOOLEAN_OBJ(info.magic.bar)]),
            !.mods = DICTIONARY_OBJ(ParsedMods(info.cmdmod))]

\* a caller gives the state nvim_cmd validated back to nvim_cmd as a descriptor
CmdValidated ==
  /\ pc = "return"
  /\ call.op = "nvim_cmd"
  /\ result.built
  /\ call.origin.from /= "validated"
  /\ pc' = "call"
  /\ call' = CmdCall(ValidatedDescriptor(call.cmd, ea, cmdinfo), call.opts.output,
                     [from |-> "validated", cmd |-> call.cmd, ea |-> ea,
                      cmdinfo |-> cmdinfo])
  /\ UNCHANGED <<ucmds, b_ucmds, err, ea, cmdinfo, cmdline, result>>

\* the command "Cm" is defined and one call is about to be made
InitCmd ==
  /\ \E c \in CmdContracts :
       ucmds = create_user_command(<<>>, CmdName, STRING_OBJ(Rep1), c).gap
  /\ b_ucmds = [b \in Buffers |-> <<>>]
  /\ pc = "call"
  /\ call \in CallInputs
  /\ err = NoError
  /\ ea = NoEa
  /\ cmdinfo = NoCmdinfo
  /\ cmdline = NoCmdline
  /\ result = NoResult

NextCmd ==
  \/ NvimCmd
  \/ NvimParseCmd
  \/ ParseBuilt
  \/ CmdParsed
  \/ CmdValidated

SpecCmd == InitCmd /\ [][NextCmd]_vars

\* every contract of CmdContracts is one create_user_command accepts
ContractsDefined == Len(ucmds) = 1 /\ ucmds[1].uc_name = CmdName

----------------------------------------------------------------------------
(* A descriptor, its line, and the line parsed again.                      *)

\* nvim_parse_cmd has returned on the line nvim_cmd built from call.origin.cmd
RoundTripped ==
  pc = "return" /\ call.op = "nvim_parse_cmd" /\ call.origin.from = "nvim_cmd"

ArrayOf(obj) == IF obj.type = "Array" THEN obj.v ELSE <<>>
SameName(d, r) == r.cmd = d.cmd
SameRange(d, r) == ArrayOf(r.range) = ArrayOf(d.range)
SameCount(d, r) ==
  IF HAS_KEY(d.count) THEN r.count = d.count
  ELSE r.count \in {NIL, INTEGER_OBJ(ucmds[1].uc_def)}
SameReg(d, r) ==
  IF HAS_KEY(d.reg) THEN r.reg = d.reg ELSE r.reg \in {NIL, STRING_OBJ(<<>>)}
SameBang(d, r) == r.bang = BOOLEAN_OBJ(api_object_to_bool(d.bang, "bang", FALSE).val)
SameArgs(d, r) ==
  ArrayOf(r.args) = [i \in 1..Len(ArrayOf(d.args)) |->
                       STRING_OBJ(ArgToString(ArrayOf(d.args)[i]))]
SameCommand(d, r) ==
  /\ SameName(d, r)
  /\ SameRange(d, r)
  /\ SameCount(d, r)
  /\ SameReg(d, r)
  /\ SameBang(d, r)
  /\ SameArgs(d, r)

PlainArg(argt, t) ==
  /\ \A i \in 1..Len(t) : t[i] \notin {"\\", "|", "\"", "\n"}
  /\ ~ascii_iswhite(t[1]) /\ ~ascii_iswhite(t[Len(t)])
  /\ "EX_NOSPC" \in argt \/ \A i \in 1..Len(t) : ~ascii_iswhite(t[i])
PlainInteger(obj) == obj.type = "Integer" /\ obj.v.hi = 0 /\ obj.v.lo >= 0
RoundTripDescriptor(argt, d) ==
  /\ d.cmd.v = ucmds[1].uc_name
  /\ "EX_COUNT" \notin argt
  /\ "EX_REGSTR" \in argt => HAS_KEY(d.reg)
  /\ \A i \in 1..Len(ArrayOf(d.args)) :
       PlainArg(argt, ArgToString(ArrayOf(d.args)[i]))
  /\ \A i \in 1..Len(ArrayOf(d.range)) : PlainInteger(ArrayOf(d.range)[i])
  /\ HAS_KEY(d.mods) /\ HAS_KEY(d.mods.v.tab) => d.mods.v.tab.v.lo <= LAST_TAB_NR

----------------------------------------------------------------------------
(* A parsed line given back to nvim_cmd.                                   *)

\* nvim_cmd has returned on the dictionary nvim_parse_cmd made of call.origin.str
ParsedGivenBack ==
  pc = "return" /\ call.op = "nvim_cmd" /\ call.origin.from = "nvim_parse_cmd"

\* C2 as the specification states it: every dictionary a successful
\* nvim_parse_cmd returns passes the checks of nvim_cmd when it is given
\* back unchanged, whatever the command accepts and the line held
C2_ParsedAccepted == ParsedGivenBack => result.built

----------------------------------------------------------------------------
(* What nvim_cmd checks and what it builds.                                *)

CmdReturned == pc = "return" /\ call.op = "nvim_cmd"

\* the count check was reached: the command was found and every argument
\* was of a type the line can carry
ArgCountReached ==
  /\ CmdReturned
  /\ result.step \notin {"output", "name"}
  /\ result.step = "args" => err.msg = "Incorrect number of arguments supplied"

\* C3 as the specification states it: a descriptor of n arguments (n = 0
\* when 'args' is absent) passes the argument-count check exactly when n is
\* a number of arguments the command takes
C3_ArgCountChecked ==
  ArgCountReached =>
    ((result.step /= "args") <=> argc_valid(ea.argt, Len(ArrayOf(call.cmd.args))))

\* the descriptor gives both a range and a count
RangeAndCountGiven(d) == HAS_KEY(d.range) /\ HAS_KEY(d.count)
\* the command takes a range and a count together: its count is the end of
\* its range
CountInRange(argt) == {"EX_RANGE", "EX_COUNT"} \subseteq argt

----------------------------------------------------------------------------
(* The line before the command name.                                       *)

\* what build_cmdline_str put before the name: the modifiers and the range
BeforeName == SubSeq(cmdline, 1, ea.cmd - 1)
\* where a word stands in a text, and where it starts a word of the text
Occurrences(word, t) ==
  {i \in 1..(Len(t) - Len(word) + 1) : SubSeq(t, i, i + Len(word) - 1) = word}
WordStarts(word, t) == {i \in Occurrences(word, t) : i = 1 \/ t[i - 1] = " "}
\* the text after the last space before the name: every modifier ends in a space
RangeText ==
  LET spaces == Occurrences(SP, BeforeName)
      last == IF spaces = {} THEN 0 ELSE CHOOSE i \in spaces : \A j \in spaces : j <= i
  IN  SubSeq(BeforeName, last + 1, Len(BeforeName))

ModsGiven(d) == d.mods.type = "Dictionary"
EmsgSilentGiven(d) ==
  /\ ModsGiven(d)
  /\ api_object_to_bool(d.mods.v.emsg_silent, "mods.emsg_silent", FALSE).val
  /\ ~ERROR_SET(api_object_to_bool(d.mods.v.emsg_silent, "mods.emsg_silent", FALSE).err)
\* the descriptor with mods.silent set
WithSilent(d) == [d EXCEPT !.mods.v.silent = Yes]

\* C5: a descriptor with mods.emsg_silent set is accepted whenever the same
\* descriptor with mods.silent set is, whatever its mods.silent says; the
\* modifiers stored hold silent as well as errsilent, and the line has
\* "silent! " once and no word "silent " before the command name
C5_ErrSilentImpliesSilent ==
  (CmdReturned /\ EmsgSilentGiven(call.cmd))
    => /\ result.built = nvim_cmd(WithSilent(call.cmd), call.opts).built
       /\ result.built =>
            /\ {"CMOD_SILENT", "CMOD_ERRSILENT"} \subseteq cmdinfo.cmdmod.cmod_flags
            /\ Cardinality(Occurrences(W_silent \o <<"!", " ">>, BeforeName)) = 1
            /\ WordStarts(W_silent \o SP, BeforeName) = {}

\* a line was built for mods.emsg_silent set and mods.silent false
C5_ErrSilentBuilt ==
  /\ CmdReturned
  /\ EmsgSilentGiven(call.cmd)
  /\ call.cmd.mods.v.silent = BOOLEAN_OBJ(FALSE)
  /\ result.built
  /\ Occurrences(W_silent \o <<"!", " ">>, cmdline) = {1}

\* the decimal text of a range element: a value of more than 32 bits has
\* more digits than a line number of the line can have
RendersAs(text, obj) == obj.v.hi = 0 /\ text = FmtInt(obj.v.lo)
RangeRendered(range) ==
  CASE Len(range) = 2 ->
         \E k \in 1..Len(RangeText) :
           /\ RangeText[k] = ","
           /\ RendersAs(SubSeq(RangeText, 1, k - 1), range[1])
           /\ RendersAs(SubSeq(RangeText, k + 1, Len(RangeText)), range[2])
    [] Len(range) = 1 -> RendersAs(RangeText, range[1])
    [] OTHER -> RangeText = <<>>
NameAfterHead == SubSeq(cmdline, ea.cmd, ea.cmd + Len(call.cmd.cmd.v) - 1) = call.cmd.cmd.v
RangeBuilt == CmdReturned /\ result.built /\ "EX_RANGE" \in ea.argt

\* C6 as the specification states it: on a command that takes a range the
\* line has "a,b" for a range [a,b], "a" for a range [a] and nothing for an
\* empty or absent range, right before the command name, whatever the other
\* fields of the descriptor are, an explicit count included
C6_RangeTextAsStated ==
  RangeBuilt => RangeRendered(ArrayOf(call.cmd.range)) /\ NameAfterHead

\* C6: on a command that takes a range, when the descriptor gives no count
\* and the range holds line numbers, the line has "a,b" for a range [a,b],
\* "a" for a range [a] and nothing for an empty or absent range, right
\* before the command name
C6_RangeText ==
  (/\ RangeBuilt
   /\ ~HAS_KEY(call.cmd.count)
   /\ \A i \in 1..Len(ArrayOf(call.cmd.range)) : PlainInteger(ArrayOf(call.cmd.range)[i]))
    => RangeRendered(ArrayOf(call.cmd.range)) /\ NameAfterHead

\* a range of two lines was written before the name, after a modifier
C6_TwoLinesBuilt ==
  /\ RangeBuilt
  /\ ~HAS_KEY(call.cmd.count)
  /\ call.cmd.range = Ints(<<1, 3>>)
  /\ RangeText = <<"1", ",", "3">>

\* a range of one line was written between a modifier and the name
C6_OneLineAfterModifier ==
  /\ RangeBuilt
  /\ call.cmd.range = Ints(<<2>>)
  /\ ModsGiven(call.cmd)
  /\ Len(BeforeName) > Len(RangeText)
  /\ RangeText = <<"2">>

NegativeGiven(d, key) ==
  ModsGiven(d) /\ d.mods.v[key].type = "Integer" /\ IsNeg64(d.mods.v[key].v)

\* C7 as the specification states it: a negative mods.tab, or a negative
\* mods.verbose, is never refused and is kept as unset: nothing is stored
\* for it and the line has no "tab " or "verbose " before the command name
C7_NegativeIsUnset ==
  CmdReturned =>
    /\ NegativeGiven(call.cmd, "tab") =>
         /\ result.step /= "mods"
         /\ result.built => /\ cmdinfo.cmdmod.cmod_tab = 0
                            /\ Occurrences(W_tab \o SP, BeforeName) = {}
    /\ NegativeGiven(call.cmd, "verbose") =>
         /\ result.step /= "mods"
         /\ result.built => /\ cmdinfo.cmdmod.cmod_verbose = 0
                            /\ Occurrences(W_verbose \o SP, BeforeName) = {}

----------------------------------------------------------------------------
(* The registry kept by define and delete.                                 *)

\* the table a call with this buffer argument works on, before and after
TableOf(buffer) ==
  IF buffer = -1 THEN ucmds ELSE b_ucmds[find_buffer_by_handle(buffer).buf]
TableOfNext(buffer) ==
  IF buffer = -1 THEN ucmds' ELSE b_ucmds'[find_buffer_by_handle(buffer).buf]
ScopeResolved(buffer) ==
  buffer = -1 \/ ~ERROR_SET(find_buffer_by_handle(buffer).err)
Named(gap, name) == {i \in 1..Len(gap) : gap[i].uc_name = name}

UppercaseName(name) == Len(name) > 0 /\ ASCII_ISUPPER(name[1])
UppercaseNames(gap) == \A i \in 1..Len(gap) : UppercaseName(gap[i].uc_name)

\* C8 as the specification states it: the registry only ever holds entries
\* whose name is not empty and starts with an uppercase letter: a define of
\* any other name adds nothing
C8_NamesUppercase ==
  UppercaseNames(ucmds) /\ \A b \in Buffers : UppercaseNames(b_ucmds[b])

\* the step is a define, valid in everything else, of a name its scope has
Redefine ==
  /\ call'.op \in {"nvim_create_user_command", "nvim_buf_create_user_command"}
  /\ ScopeResolved(call'.buffer)
  /\ Named(TableOf(call'.buffer), call'.name) /= {}
  /\ FirstFailed(CreateChecks(call'.name, call'.command, call'.opts), 1) = 0
\* the define failed and changed nothing
Refused ==
  /\ err' = ExceptionError("Failed to create user command")
  /\ ucmds' = ucmds
  /\ b_ucmds' = b_ucmds
\* the define put the new entry where the entry of that name was
Replaced ==
  LET old == TableOf(call'.buffer)
      i == CHOOSE j \in Named(old, call'.name) : TRUE
  IN  /\ err' = NoError
      /\ TableOfNext(call'.buffer)
           = [old EXCEPT ![i] = NewUcmd(call'.name, call'.command, call'.opts)]
      /\ Cardinality(Named(TableOfNext(call'.buffer), call'.name)) = 1
      /\ call'.buffer = -1 => b_ucmds' = b_ucmds
      /\ call'.buffer /= -1 => ucmds' = ucmds
ForceSaysTrue(opts) == opts.force = BOOLEAN_OBJ(TRUE)
ForceSaysFalse(opts) ==
  opts.force = BOOLEAN_OBJ(FALSE) \/ (opts.force.type = "Integer" /\ IsZero64(opts.force.v))

\* C9 as the specification states it: a define of a name its scope already
\* has fails and changes nothing unless the call says force=true, a call
\* that says nothing of force included; with force=true the entry is
\* replaced and the scope still has one entry of that name
C9_CollisionAsStated ==
  [][Redefine => IF ForceSaysTrue(call'.opts) THEN Replaced ELSE Refused]_vars

\* C9: a define of a name its scope already has fails with "Failed to
\* create user command" and changes nothing only when the call says
\* force=false; with force=true, and when the call says nothing of force,
\* the entry is replaced and the scope still has one entry of that name
C9_Collision ==
  [][Redefine => IF ForceSaysFalse(call'.opts) THEN Refused ELSE Replaced]_vars

\* a define with force=false met the name and was refused
C9_CollisionRefused ==
  /\ call.op = "nvim_create_user_command"
  /\ call.opts.force = BOOLEAN_OBJ(FALSE)
  /\ err = ExceptionError("Failed to create user command")
  /\ Cardinality(Named(ucmds, call.name)) = 1

\* the step is a delete of a name its scope does not have
DeleteMissing ==
  /\ call'.op = "nvim_buf_del_user_command"
  /\ ScopeResolved(call'.buffer)
  /\ Named(TableOf(call'.buffer), call'.name) = {}

\* C10: a delete of a name that the scope it works on does not have sets an
\* error and leaves the global table and every buffer's table as they were
C10_DeleteMissing ==
  [][DeleteMissing =>
       /\ err' = ExceptionError("No such user-defined command")
       /\ ucmds' = ucmds
       /\ b_ucmds' = b_ucmds]_vars

\* a global delete failed on a name that only a buffer has
C10_OtherScopeKept ==
  /\ call.op = "nvim_buf_del_user_command"
  /\ call.buffer = -1
  /\ err = ExceptionError("No such user-defined command")
  /\ Named(ucmds, call.name) = {}
  /\ \E b \in Buffers : Named(b_ucmds[b], call.name) /= {}


----------------------------------------------------------------------------
(* The listings.                                                           *)

\* the call listed commands and its 'builtin' option was true
BuiltinListed ==
  /\ call.op = "nvim_buf_get_commands"
  /\ ~ERROR_SET(api_object_to_bool(call.opts.force, "builtin", FALSE).err)
  /\ api_object_to_bool(call.opts.force, "builtin", FALSE).val

\* C11 as the specification states it: a listing with builtin=true sets a
\* validation error and lists nothing, in the global scope and in the scope
\* of a buffer
C11_BuiltinRejected ==
  BuiltinListed => err.type = "Validation" /\ result.list = <<>>


----------------------------------------------------------------------------
(* What build_cmdline_str records of the line.                             *)

\* the arguments of the call as the line carries them
GivenArgs ==
  [i \in 1..Len(ArrayOf(call.cmd.args)) |-> ArgToString(ArrayOf(call.cmd.args)[i])]
\* the position of the NUL that ends the line
LineEnd == Len(cmdline) + 1

\* C12: after build_cmdline_str ea.cmd is where the command name starts in
\* the line, ea.argc is the number of arguments, the bytes from ea.args[i]
\* of length ea.arglens[i] are the i-th argument, the byte before them is a
\* space, the next argument starts one byte after the end of this one, the
\* last argument ends at the NUL, and without arguments ea.arg is the NUL
C12_Offsets ==
  (CmdReturned /\ result.built) =>
    /\ NameAfterHead
    /\ ea.argc = Len(GivenArgs)
    /\ Len(ea.args) = ea.argc /\ Len(ea.arglens) = ea.argc
    /\ \A i \in 1..ea.argc :
         /\ SubSeq(cmdline, ea.args[i], ea.args[i] + ea.arglens[i] - 1) = GivenArgs[i]
         /\ cmdline[ea.args[i] - 1] = " "
         /\ i < ea.argc => ea.args[i + 1] = ea.args[i] + ea.arglens[i] + 1
    /\ ea.argc > 0 => /\ ea.args[ea.argc] + ea.arglens[ea.argc] = LineEnd
                      /\ ea.arg = ea.args[1]
    /\ ea.argc = 0 => ea.arg = LineEnd

\* a line with a bang, a register and two arguments was built
C12_TwoArgsRecorded ==
  /\ CmdReturned
  /\ result.built
  /\ ea.argc = 2
  /\ ea.forceit
  /\ ea.regname /= "NUL"
  /\ ea.args[2] > ea.args[1]


----------------------------------------------------------------------------
(* C13: cleanup of nvim_cmd.                                               *)

\* a later modifier is refused after the filter of the call was installed
RefusedAfterFilter ==
  /\ CmdReturned /\ ~result.built /\ result.step = "mods"
  /\ cmdinfo.cmdmod.cmod_filter_regprog

\* C13: when a call of nvim_cmd has returned, on whatever path, nothing the
\* call allocated is still allocated: the converted args, cmdname, cmdline,
\* ea.args, ea.arglens, the filter pattern copy and the compiled program
C13_AllReleased == CmdReturned => result.held = {}

\* what holds in the code: everything but the filter is released on every
\* path, and the filter is released whenever the line was executed
C13_ReleasedButFilter ==
  CmdReturned =>
    /\ result.held \subseteq {"cmod_filter_pat", "cmod_filter_regprog"}
    /\ result.built => result.held = {}


----------------------------------------------------------------------------
(* C14: validating a validated state again.                                *)

\* nvim_cmd has returned from a call on the validated state of an earlier call
Revalidated == CmdReturned /\ call.origin.from = "validated"

\* the second validation computed the state the first one computed
SameValidated ==
  /\ result.built
  /\ ea.line1 = call.origin.ea.line1
  /\ ea.line2 = call.origin.ea.line2
  /\ ea.addr_count = call.origin.ea.addr_count
  /\ ea.regname = call.origin.ea.regname
  /\ ea.forceit = call.origin.ea.forceit
  /\ cmdinfo = call.origin.cmdinfo

\* C14 as stated: the validated state of any descriptor, validated again,
\* is the same validated state
C14_IdempotentAsStated == Revalidated => SameValidated

\* C14: the validated state of a descriptor that gave no count, validated
\* again, is the same validated state: the defaults, the range, the register,
\* the bang, the magic flags and the modifiers are fixed points
C14_Idempotent ==
  (Revalidated /\ ~HAS_KEY(call.origin.cmd.count)) => SameValidated

\* a descriptor with a range, a register and modifiers was validated twice
C14_RevalidatedReached ==
  /\ Revalidated /\ ~HAS_KEY(call.origin.cmd.count)
  /\ \/ ea.addr_count = 2
     \/ ea.regname /= "NUL"
     \/ cmdinfo.cmdmod.cmod_tab > 0 /\ "CMOD_SILENT" \in cmdinfo.cmdmod.cmod_flags


----------------------------------------------------------------------------
(* C15: the order of the checks.                                           *)

\* the descriptor with the name of d and one more field of d, nothing else
Only(d, key) == [CmdNone EXCEPT !.cmd = d.cmd, ![key] = d[key]]

\* the step fails for the call when nothing but the name and the field of
\* the step is given: the field is invalid by itself
FailsAlone(d, opts, step) ==
  CASE step = "output" -> OutputStage(opts).step = "output"
    [] step = "name" -> Validate(Only(d, "cmd"), [output |-> NIL]).step = "name"
    [] OTHER -> Validate(Only(d, step), [output |-> NIL]).step = step

RECURSIVE EarliestFailing(_, _, _, _)
\* the first step of an order that fails by itself, "" when none does
EarliestFailing(d, opts, order, i) ==
  IF i > Len(order) THEN ""
  ELSE IF FailsAlone(d, opts, order[i]) THEN order[i]
  ELSE EarliestFailing(d, opts, order, i + 1)

\* the order the claim states, and the order with the option 'output' first
StatedOrder == <<"name", "args", "range", "count", "reg", "bang", "magic", "mods">>
CheckedOrder == <<"output">> \o StatedOrder

\* nvim_cmd returned an error that is the error of the first failing step of
\* the order, or built the line when no step fails
FailsFirstOf(order) ==
  /\ result.step = EarliestFailing(call.cmd, call.opts, order, 1)
  /\ result.built <=> result.step = ""
  /\ ~result.built => err.type = "Validation"

\* C15 as stated: the error returned is the one of the earliest failing step
\* in the order name, args, range, count, register, bang, magic, modifiers,
\* the name being checked before anything else of the call
C15_FailFastAsStated == CmdReturned => FailsFirstOf(StatedOrder)

\* C15: the error returned is the one of the earliest failing step in the
\* order 'output' option, name, args, range, count, register, bang, magic,
\* modifiers; no later step's error stands in place of an earlier step's
C15_FailFast == CmdReturned => FailsFirstOf(CheckedOrder)

\* a count, a register, a bang, the magic and the modifiers are all invalid
\* and the error of the count is the one returned
C15_CountBeforeRest ==
  /\ CmdReturned /\ result.step = "count"
  /\ \A k \in {"reg", "bang", "magic", "mods"} : FailsAlone(call.cmd, call.opts, k)


----------------------------------------------------------------------------
(* C16: the default range.                                                 *)

\* nvim_cmd built the line of a descriptor that gives no range and no count,
\* for a command whose default range is not the whole extent
NoRangeGiven ==
  /\ CmdReturned /\ result.built
  /\ ~HAS_KEY(call.cmd.range) \/ call.cmd.range = ARRAY_OBJ(<<>>)
  /\ ~HAS_KEY(call.cmd.count)
  /\ "EX_DFLALL" \notin ea.argt

\* the current position of an address kind: the cursor line, the current buffer
CurrentPosition ==
  CASE ea.addr_type \in {"ADDR_LINES", "ADDR_OTHER"} ->
         IF w_cursor_lnum > ml_line_count THEN ml_line_count ELSE w_cursor_lnum
    [] ea.addr_type = "ADDR_BUFFERS" -> curbuf
    [] OTHER -> 0

\* the default is one line, the current position, but for the address kind
\* other, whose second line is the given one
DefaultsTo(other) ==
  /\ ea.addr_count = 0
  /\ ea.line1 = CurrentPosition
  /\ ea.line2 = IF ea.addr_type = "ADDR_OTHER" THEN other ELSE CurrentPosition

\* C16 as stated: with no range given and no rangeDefaultAll the default is
\* the current position, except that for address kind other line2 is 2
C16_DefaultOtherAsStated == NoRangeGiven => DefaultsTo(2)

\* C16: with no range given and no rangeDefaultAll the default is the current
\* position, except that for address kind other line2 is 1
C16_DefaultOther == NoRangeGiven => DefaultsTo(1)

\* a command of address kind other got its default range, the cursor not
\* being on line 1
C16_OtherDefaulted ==
  NoRangeGiven /\ ea.addr_type = "ADDR_OTHER" /\ ea.line1 /= 1


----------------------------------------------------------------------------
(* C17: the order of the modifier prefix.                                  *)

\* the modifier tokens in the order stated, each with whether its modifier
\* is set in the validated modifiers
Token(word, set) == [word |-> word, set |-> set]
FlagToken(word, flag) == Token(word, flag \in cmdinfo.cmdmod.cmod_flags)
SplitToken(word, bit) == Token(word, bit \in cmdinfo.cmdmod.cmod_split)
PrefixTokens ==
  << Token(FmtInt(cmdinfo.cmdmod.cmod_tab - 1) \o W_tab, cmdinfo.cmdmod.cmod_tab > 0),
     Token(FmtInt(cmdinfo.cmdmod.cmod_verbose - 1) \o W_verbose,
           cmdinfo.cmdmod.cmod_verbose > 0),
     FlagToken(W_silent \o <<"!">>, "CMOD_ERRSILENT"),
     Token(W_silent, "CMOD_SILENT" \in cmdinfo.cmdmod.cmod_flags
                     /\ "CMOD_ERRSILENT" \notin cmdinfo.cmdmod.cmod_flags),
     FlagToken(W_unsilent, "CMOD_UNSILENT"),
     SplitToken(W_aboveleft, "WSP_ABOVE"),
     SplitToken(W_belowright, "WSP_BELOW"),
     SplitToken(W_topleft, "WSP_TOP"),
     SplitToken(W_botright, "WSP_BOT"),
     SplitToken(W_vertical, "WSP_VERT"),
     SplitToken(W_horizontal, "WSP_HOR"),
     FlagToken(W_sandbox, "CMOD_SANDBOX"),
     FlagToken(W_noautocmd, "CMOD_NOAUTOCMD"),
     FlagToken(W_browse, "CMOD_BROWSE"),
     FlagToken(W_confirm, "CMOD_CONFIRM"),
     FlagToken(W_hide, "CMOD_HIDE"),
     FlagToken(W_keepalt, "CMOD_KEEPALT"),
     FlagToken(W_keepjumps, "CMOD_KEEPJUMPS"),
     FlagToken(W_keepmarks, "CMOD_KEEPMARKS"),
     FlagToken(W_keeppatterns, "CMOD_KEEPPATTERNS"),
     FlagToken(W_lockmarks, "CMOD_LOCKMARKS"),
     FlagToken(W_noswapfile, "CMOD_NOSWAPFILE") >>

\* the text before the range text and the name
ModsText == SubSeq(BeforeName, 1, Len(BeforeName) - Len(RangeText))

\* the tokens that are set, each with one space after it, one after the other
RECURSIVE TokensInOrder(_, _)
TokensInOrder(tokens, i) ==
  IF i > Len(tokens) THEN <<>>
  ELSE (IF tokens[i].set THEN tokens[i].word \o SP ELSE <<>>)
       \o TokensInOrder(tokens, i + 1)

\* where the token stands in the text as a word followed by a space
TokenAt(token, t) == WordStarts(token.word \o SP, t)

\* C17: the text nvim_cmd writes before the range and the name is the tokens
\* of the modifiers that are set, in the stated order: each stands there once
\* if its modifier is set and not at all otherwise, with one space after it,
\* at most one split direction among them, and the range text and the name
\* come after all of them
C17_PrefixOrder ==
  (CmdReturned /\ result.built) =>
    /\ ModsText = TokensInOrder(PrefixTokens, 1)
    /\ \A k \in 1..Len(PrefixTokens) :
         Cardinality(TokenAt(PrefixTokens[k], ModsText))
           = IF PrefixTokens[k].set THEN 1 ELSE 0
    /\ \A j, k \in 1..Len(PrefixTokens) :
         (j < k /\ PrefixTokens[j].set /\ PrefixTokens[k].set)
           => \A a \in TokenAt(PrefixTokens[j], ModsText) :
                \A b \in TokenAt(PrefixTokens[k], ModsText) : a < b
    /\ Cardinality({k \in 6..9 : PrefixTokens[k].set}) <= 1
    /\ \A i \in 1..Len(RangeText) : RangeText[i] \in DigitSet \cup {","}
    /\ NameAfterHead

\* a line with a tab, a verbose and a silent! token, or one with a split
\* direction before vertical
C17_ThreeTokensBuilt ==
  /\ CmdReturned /\ result.built
  /\ \/ /\ cmdinfo.cmdmod.cmod_tab > 0 /\ cmdinfo.cmdmod.cmod_verbose > 0
        /\ "CMOD_ERRSILENT" \in cmdinfo.cmdmod.cmod_flags
     \/ {"WSP_BOT", "WSP_VERT"} \subseteq cmdinfo.cmdmod.cmod_split


----------------------------------------------------------------------------
(* C18: the filter modifier.                                               *)

\* the filter of the descriptor, when the modifiers passed their checks
FilterGiven ==
  /\ CmdReturned /\ result.built
  /\ ModsGiven(call.cmd) /\ HAS_KEY(call.cmd.mods.v.filter)

\* the filter has a non-empty pattern, or has force (invert) set
FilterWanted(f) ==
  \/ HAS_KEY(f.pattern) /\ Len(f.pattern.v) > 0
  \/ api_object_to_bool(f.force, "'mods.filter.force'", FALSE).val

\* a filter is installed: the pattern is stored and its program compiled
FilterInstalled ==
  /\ cmdinfo.cmdmod.cmod_filter_pat /= NIL
  /\ cmdinfo.cmdmod.cmod_filter_regprog

\* C18: nvim_cmd installs a filter exactly when the filter of the descriptor
\* has a non-empty pattern or has force set, also when force is set and the
\* pattern is empty or not supplied
C18_FilterInstalled ==
  /\ FilterGiven => (FilterInstalled <=> FilterWanted(call.cmd.mods.v.filter.v))
  /\ (CmdReturned /\ result.built /\ ~FilterGiven) => ~FilterInstalled

\* what the code does: a filter without a pattern key is never installed
C18_InstalledWithPattern ==
  FilterGiven =>
    (FilterInstalled <=>
       /\ HAS_KEY(call.cmd.mods.v.filter.v.pattern)
       /\ FilterWanted(call.cmd.mods.v.filter.v))


----------------------------------------------------------------------------
(* C19: the arguments of a parsed line.                                    *)

\* nvim_parse_cmd returned the dictionary of a line
ParseReturned ==
  pc = "return" /\ call.op = "nvim_parse_cmd" /\ ~ERROR_SET(err)

\* the text after the command name that the arguments are taken from
TrailingText == parse_cmdline(call.str).arg
ArgsParsed == result.dict.v.args.v

\* the runs of non-white characters of a text, in the order they stand in it
RunStarts(t) ==
  {i \in 1..Len(t) : ~ascii_iswhite(t[i]) /\ (i = 1 \/ ascii_iswhite(t[i - 1]))}
RunEnd(t, i) ==
  CHOOSE j \in i..Len(t) :
    /\ \A k \in i..j : ~ascii_iswhite(t[k])
    /\ j = Len(t) \/ ascii_iswhite(t[j + 1])
NthStart(t, n) ==
  CHOOSE i \in RunStarts(t) : Cardinality({j \in RunStarts(t) : j <= i}) = n
Runs(t) ==
  [n \in 1..Cardinality(RunStarts(t)) |->
     STRING_OBJ(SubSeq(t, NthStart(t, n), RunEnd(t, NthStart(t, n))))]

\* C19: for the arities exactlyOne and zeroOrOne the whole trailing text is
\* the one argument (none when it is empty) and is never split; for every
\* other arity the splitter is called until it says the text is exhausted,
\* which it does after finitely many calls; the non-empty segments are the
\* arguments in the order produced (the runs of non-white characters when
\* nothing is escaped) and no empty segment is among them
C19_ParsedArgs ==
  ParseReturned =>
    IF "EX_NOSPC" \in ea.argt
    THEN ArgsParsed = IF TrailingText = <<>> THEN <<>>
                      ELSE <<STRING_OBJ(TrailingText)>>
    ELSE /\ \A i \in 1..Len(ArgsParsed) : Len(ArgsParsed[i].v) > 0
         /\ SplitCalls(TrailingText, 0) <= Len(TrailingText) + 1
         /\ Len(ArgsParsed) <= SplitCalls(TrailingText, 0)
         /\ "\\" \notin {TrailingText[i] : i \in 1..Len(TrailingText)}
              => ArgsParsed = Runs(TrailingText)

\* a text with several spaces between two words was split in two, and a text
\* with a space in it was kept whole
C19_SplitReached ==
  /\ ParseReturned
  /\ \/ /\ "EX_NOSPC" \notin ea.argt
        /\ Len(ArgsParsed) = 2 /\ Len(TrailingText) > 3
     \/ /\ "EX_NOSPC" \in ea.argt
        /\ Len(ArgsParsed) = 1 /\ " " \in {TrailingText[i] : i \in 1..Len(TrailingText)}


----------------------------------------------------------------------------
(* C20: a delete that finds the name.                                      *)

\* the step is a delete of a name that the table of its scope has
DeleteFound ==
  /\ call'.op = "nvim_buf_del_user_command"
  /\ ScopeResolved(call'.buffer)
  /\ Named(TableOf(call'.buffer), call'.name) /= {}

\* the place of the first entry of a name in a table that has it
FirstNamed(gap, name) ==
  CHOOSE i \in Named(gap, name) : \A j \in Named(gap, name) : i <= j

\* table "after" is table "before" without its entry at place i: one entry
\* less, every other entry once and in the order it had
Without(before, after, i) ==
  /\ Len(after) = Len(before) - 1
  /\ \A j \in 1..(i - 1) : after[j] = before[j]
  /\ \A j \in i..Len(after) : after[j] = before[j + 1]

\* the tables of the scopes the delete does not work on are as they were
OtherScopesKept(buffer) ==
  IF buffer = -1 THEN b_ucmds' = b_ucmds
  ELSE /\ ucmds' = ucmds
       /\ \A b \in Buffers :
            b /= find_buffer_by_handle(buffer).buf => b_ucmds'[b] = b_ucmds[b]

\* C20: a delete of a name its scope has sets no error and removes exactly
\* the first entry of that name: the table is one shorter, keeps every other
\* entry once and in order, and the table of the other scope is unchanged
C20_DeleteOne ==
  [][DeleteFound =>
       /\ err' = NoError
       /\ Without(TableOf(call'.buffer), TableOfNext(call'.buffer),
                  FirstNamed(TableOf(call'.buffer), call'.name))
       /\ OtherScopesKept(call'.buffer)]_vars

\* a delete took the middle one of three entries of the global table while
\* a buffer has a command of its own
C20_MiddleDeleted ==
  /\ call.op = "nvim_buf_del_user_command" /\ call.buffer = -1
  /\ err = NoError
  /\ Len(ucmds) = 2
  /\ NameCmp(ucmds[1].uc_name, call.name, 1) < 0
  /\ NameCmp(call.name, ucmds[2].uc_name, 1) < 0
  /\ \E b \in Buffers : Len(b_ucmds[b]) > 0


----------------------------------------------------------------------------
(* C21: the references of a define that fails.                             *)

\* a define returned with a validation error of create_user_command
DefineRefused ==
  /\ call.op \in {"nvim_create_user_command", "nvim_buf_create_user_command"}
  /\ result.kind = "define"
  /\ err.type = "Validation"

\* C21: when create_user_command returns with a validation error, none of
\* the references it took in the call (command, completion, preview) is
\* still held
C21_RefsReleased == DefineRefused => result.held = {}

\* what the code does: the command and the completion reference are cleared
\* on every failure, the preview reference is the only one that can be left
C21_OnlyPreviewLeft == DefineRefused => result.held \subseteq {"preview_luaref"}

\* a define was refused after it had taken a completion reference
C21_CompletionReleased ==
  /\ DefineRefused
  /\ call.opts.complete.type = "LuaRef"
  /\ err.msg \in {"Invalid value for 'preview'",
                  "'command' must be a string or Lua function"}


----------------------------------------------------------------------------
(* C22: a delete with a handle of no buffer.                               *)

\* nvim_buf_del_user_command was called with a handle that is no buffer's
DeleteUnresolved ==
  /\ call.op = "nvim_buf_del_user_command"
  /\ ~ScopeResolved(call.buffer)

\* C22: a delete with a handle that resolves to no buffer returns with the
\* error of the buffer lookup set and has not used the buffer that is not
\* there: the call has not crashed on it and has not gone on to search a table
C22_UnresolvedRefused ==
  DeleteUnresolved =>
    /\ pc = "run"
    /\ err = find_buffer_by_handle(call.buffer).err

\* what the code does with such a handle: it reads the table of the null
\* buffer, and either crashes there or finds nothing in what it reads
C22_NullBufferUsed ==
  DeleteUnresolved =>
    \/ pc = "crash"
    \/ err = ExceptionError("No such user-defined command")


----------------------------------------------------------------------------
(* C23: the narrowing of the integers.                                     *)

\* an Integer nvim_cmd takes as non-negative: the 64-bit value is not below 0
AcceptedInteger(obj) == obj.type = "Integer" /\ ~IsNeg64(obj.v)

\* the 32-bit number stored is the 64-bit number given
SameNumber(obj, stored) == obj.v.hi = 0 /\ obj.v.lo = stored

\* nvim_cmd built the line of a descriptor: every value passed its checks
Validated == CmdReturned /\ result.built

\* the range given, when no count changed the lines after it
RangeKept(d) ==
  /\ d.range.type = "Array" /\ Len(d.range.v) > 0 /\ ~HAS_KEY(d.count)
  /\ \A i \in 1..Len(d.range.v) : AcceptedInteger(d.range.v[i])

\* the count given, for an address kind whose count is the last address
CountKept(d) == AcceptedInteger(d.count) /\ ea.addr_type /= "ADDR_LINES"

\* the modifier given as a number
NumberGiven(d, key) == ModsGiven(d) /\ AcceptedInteger(d.mods.v[key])

\* C23: every 64-bit integer nvim_cmd accepts as non-negative for a range
\* element, the count, mods.tab or mods.verbose is stored as the same
\* number (tab and verbose as the number plus one): none wraps to another
\* value, becomes negative or is taken as unset
C23_NoNarrowing ==
  Validated =>
    /\ RangeKept(call.cmd) =>
         /\ SameNumber(call.cmd.range.v[1], ea.line1)
         /\ SameNumber(call.cmd.range.v[Len(call.cmd.range.v)], ea.line2)
    /\ CountKept(call.cmd) => SameNumber(call.cmd.count, ea.line2)
    /\ NumberGiven(call.cmd, "tab") =>
         SameNumber(call.cmd.mods.v.tab, cmdinfo.cmdmod.cmod_tab - 1)
    /\ NumberGiven(call.cmd, "verbose") =>
         SameNumber(call.cmd.mods.v.verbose, cmdinfo.cmdmod.cmod_verbose - 1)

\* what holds in the code: a value that fits in 32 bits is stored as it is
C23_SmallKept ==
  Validated =>
    /\ (RangeKept(call.cmd) /\ \A i \in 1..Len(call.cmd.range.v) :
                                 call.cmd.range.v[i].v.hi = 0) =>
         /\ SameNumber(call.cmd.range.v[1], ea.line1)
         /\ SameNumber(call.cmd.range.v[Len(call.cmd.range.v)], ea.line2)
    /\ (CountKept(call.cmd) /\ call.cmd.count.v.hi = 0) =>
         SameNumber(call.cmd.count, ea.line2)
    /\ (NumberGiven(call.cmd, "tab") /\ call.cmd.mods.v.tab.v.hi = 0) =>
         SameNumber(call.cmd.mods.v.tab, cmdinfo.cmdmod.cmod_tab - 1)
    /\ (NumberGiven(call.cmd, "verbose") /\ call.cmd.mods.v.verbose.v.hi = 0) =>
         SameNumber(call.cmd.mods.v.verbose, cmdinfo.cmdmod.cmod_verbose - 1)

====
